---------------------------- MODULE Spec2Model ----------------------------
(***************************************************************************)
(* A model of rust-target-tuples: the per-field classifiers and the        *)
(* System disambiguator of target-tuple-pieces, the Target parser of       *)
(* src/pieces.rs, the match_targets dispatch of src/lib.rs and the pattern *)
(* compiler of target-tuples-macro.                                        *)
(*                                                                         *)
(* Texts are TLA+ strings; the parsers really split them at '-' and really *)
(* test prefixes and suffixes, as the Rust code does.                      *)
(*   Option<T> : None is <<>>, Some(v) is <<v>>                            *)
(*   Result<T, UnknownError> : Err is <<"Err">>, Ok(v) is <<"Ok", v>>      *)
(***************************************************************************)
EXTENDS Naturals, Sequences, FiniteSets, TLC

-----------------------------------------------------------------------------
(* Option and Result *)

None == <<>>

Some(v) == <<v>>

is_some(o) == Len(o) = 1

unwrap(o) == o[1]

Err == <<"Err">>

Ok(v) == <<"Ok", v>>

is_ok(r) == r[1] = "Ok"

is_err(r) == r[1] = "Err"

\* Result::ok : Result<T, E> -> Option<T>
ok(r) == IF is_ok(r) THEN Some(r[2]) ELSE None

-----------------------------------------------------------------------------
(* str operations of the Rust standard library, on TLA+ strings *)

starts_with(s, p) == Len(s) >= Len(p) /\ SubSeq(s, 1, Len(p)) = p

ends_with(s, p) == Len(s) >= Len(p) /\ SubSeq(s, Len(s) - Len(p) + 1, Len(s)) = p

\* the index of the first '-' of s at or after i, or 0 when there is none
RECURSIVE find_dash(_, _)
find_dash(s, i) ==
  IF i > Len(s) THEN 0
  ELSE IF SubSeq(s, i, i) = "-" THEN i
  ELSE find_dash(s, i + 1)

\* str::split_once('-') : None, or Some(<<before, after>>) around the first '-'
split_once(s) ==
  LET i == find_dash(s, 1)
  IN  IF i = 0 THEN None
      ELSE Some(<<SubSeq(s, 1, i - 1), SubSeq(s, i + 1, Len(s))>>)

\* str::split('-') collected: the sequence of all segments (never empty)
RECURSIVE split(_)
split(s) ==
  LET i == find_dash(s, 1)
  IN  IF i = 0 THEN <<s>>
      ELSE <<SubSeq(s, 1, i - 1)>> \o split(SubSeq(s, i + 1, Len(s)))

\* the n-th item of an iterator over segs: Iterator::next after n-1 calls
nth(segs, n) == IF n <= Len(segs) THEN Some(segs[n]) ELSE None

-----------------------------------------------------------------------------
(* Classification tables.  A rule is <<kind, pattern, member>>: the match  *)
(* arm `"p" => m` is <<"eq", p, m>>, `x if x.starts_with("p") => m` is     *)
(* <<"prefix", p, m>> and `x if x.ends_with("p") => m` is <<"suffix", p,   *)
(* m>>.  Rules are in the order of the match arms; the first that matches  *)
(* decides, as in a Rust match.                                            *)

rule_matches(rule, s) ==
  CASE rule[1] = "eq"     -> s = rule[2]
    [] rule[1] = "prefix" -> starts_with(s, rule[2])
    [] rule[1] = "suffix" -> ends_with(s, rule[2])

\* a match that lets the last rule that matches decide
RECURSIVE last_match(_, _, _)
last_match(rules, s, i) ==
  IF i > Len(rules) THEN Err
  ELSE LET later == last_match(rules, s, i + 1)
       IN  IF is_ok(later) THEN later
           ELSE IF rule_matches(rules[i], s) THEN Ok(rules[i][3])
           ELSE Err

RECURSIVE first_match(_, _, _)
first_match(rules, s, i) ==
  IF i > Len(rules) THEN Err
  ELSE IF rule_matches(rules[i], s) THEN Ok(rules[i][3])
  ELSE first_match(rules, s, i + 1)

\* Architecture of target-tuple-pieces carries a payload on the x86 members
Arch(tag) == [tag |-> tag, n |-> 0]

ArchN(tag, n) == [tag |-> tag, n |-> n]

\* src/target-tuple-pieces/src/lib.rs:63-108  (79 rules)
ArchitectureRules ==
  <<
    <<"eq", "i86", ArchN("X86_16", 0)>>,
    <<"eq", "i8086", ArchN("X86_16", 0)>>,
    <<"eq", "i086", ArchN("X86_16", 0)>>,
    <<"eq", "i186", ArchN("X86_16", 1)>>,
    <<"eq", "i286", ArchN("X86_16", 2)>>,
    <<"eq", "i386", ArchN("X86_32", 3)>>,
    <<"eq", "i486", ArchN("X86_32", 4)>>,
    <<"eq", "i586", ArchN("X86_32", 5)>>,
    <<"eq", "i686", ArchN("X86_32", 6)>>,
    <<"eq", "i786", ArchN("X86_32", 7)>>,
    <<"eq", "amd64", ArchN("X86_64", 1)>>,
    <<"eq", "x86_64", ArchN("X86_64", 1)>>,
    <<"eq", "x86_64h", ArchN("X86_64", 1)>>,
    <<"eq", "x64", ArchN("X86_64", 1)>>,
    <<"eq", "x86_64v2", ArchN("X86_64", 2)>>,
    <<"eq", "x86_64v3", ArchN("X86_64", 3)>>,
    <<"eq", "x86_64v4", ArchN("X86_64", 4)>>,
    <<"eq", "armeb", Arch("ArmBe")>>,
    <<"eq", "arm", Arch("Arm")>>,
    <<"eq", "aarch64", Arch("Aarch64")>>,
    <<"eq", "arm64", Arch("Aarch64")>>,
    <<"eq", "arm64e", Arch("Aarch64")>>,
    <<"eq", "aarch64_be", Arch("Aarch64Be")>>,
    <<"eq", "arm64_be", Arch("Aarch64Be")>>,
    <<"eq", "aarch64_32", Arch("Aarch64_32")>>,
    <<"eq", "arm64_32", Arch("Aarch64_32")>>,
    <<"prefix", "clever", Arch("Clever")>>,
    <<"eq", "powerpc", Arch("PowerPC32")>>,
    <<"eq", "powerpcspe", Arch("PowerPC32")>>,
    <<"eq", "ppc", Arch("PowerPC32")>>,
    <<"eq", "ppc32", Arch("PowerPC32")>>,
    <<"eq", "powerpc64", Arch("PowerPC64")>>,
    <<"eq", "ppu", Arch("PowerPC64")>>,
    <<"eq", "ppc64", Arch("PowerPC64")>>,
    <<"eq", "powerpc64le", Arch("PowerPC64le")>>,
    <<"eq", "ppc64le", Arch("PowerPC64le")>>,
    <<"eq", "mips", Arch("Mips")>>,
    <<"eq", "mipseb", Arch("Mips")>>,
    <<"eq", "mipsallegrex", Arch("Mips")>>,
    <<"eq", "mipsisa32r6", Arch("Mips")>>,
    <<"eq", "mipsr6", Arch("Mips")>>,
    <<"eq", "mipsel", Arch("MipsLE")>>,
    <<"eq", "mipsallegrexel", Arch("MipsLE")>>,
    <<"eq", "mipsisa32r6el", Arch("MipsLE")>>,
    <<"eq", "mipsr6el", Arch("MipsLE")>>,
    <<"eq", "mips64", Arch("Mips64")>>,
    <<"eq", "mips64eb", Arch("Mips64")>>,
    <<"eq", "mipsn32", Arch("Mips64")>>,
    <<"eq", "mipsisa64r6", Arch("Mips64")>>,
    <<"eq", "mips64r6", Arch("Mips64")>>,
    <<"eq", "mipsn32r6", Arch("Mips64")>>,
    <<"eq", "mips64el", Arch("Mips64LE")>>,
    <<"eq", "mipsn32el", Arch("Mips64LE")>>,
    <<"eq", "mipsisa64r6el", Arch("Mips64LE")>>,
    <<"eq", "mips64r6el", Arch("Mips64LE")>>,
    <<"eq", "mipsn32r6el", Arch("Mips64LE")>>,
    <<"eq", "sparc", Arch("Sparc")>>,
    <<"eq", "sparcel", Arch("SparcEL")>>,
    <<"eq", "sparcv9", Arch("SparcV9")>>,
    <<"eq", "sparc64", Arch("SparcV9")>>,
    <<"eq", "riscv32", Arch("RiscV32")>>,
    <<"eq", "riscv64", Arch("RiscV64")>>,
    <<"eq", "wc65c816", Arch("Wc65c816")>>,
    <<"eq", "65816", Arch("Wc65c816")>>,
    <<"eq", "w65c816", Arch("Wc65c816")>>,
    <<"eq", "65c816", Arch("Wc65c816")>>,
    <<"eq", "w65", Arch("Wc65c816")>>,
    <<"eq", "6502", Arch("M6502")>>,
    <<"eq", "6502x", Arch("M6502")>>,
    <<"eq", "6502X", Arch("M6502")>>,
    <<"eq", "65c02", Arch("M65C02")>>,
    <<"eq", "65C02", Arch("M65C02")>>,
    <<"eq", "wasm32", Arch("Wasm32")>>,
    <<"eq", "wasm64", Arch("Wasm64")>>,
    <<"eq", "spc700", Arch("SPC700")>>,
    <<"eq", "spc", Arch("SPC700")>>,
    <<"eq", "holeybytes", Arch("HoleyBytes")>>,
    <<"eq", "hbvm", Arch("HoleyBytes")>>,
    <<"eq", "hb", Arch("HoleyBytes")>>
  >>

\* src/target-tuple-pieces/src/lib.rs:205-224  (15 rules)
VendorRules ==
  <<
    <<"eq", "apple", "Apple">>,
    <<"eq", "pc", "PC">>,
    <<"eq", "scei", "SCEI">>,
    <<"eq", "fsl", "Freescale">>,
    <<"eq", "img", "ImaginationTechnologies">>,
    <<"eq", "ibm", "IBM">>,
    <<"eq", "mti", "MipsTechnologies">>,
    <<"eq", "nvidia", "NVIDIA">>,
    <<"eq", "csr", "CSR">>,
    <<"eq", "myriad", "Myriad">>,
    <<"eq", "amd", "AMD">>,
    <<"eq", "mesa", "Mesa">>,
    <<"eq", "suse", "SUSE">>,
    <<"eq", "oe", "OpenEmbedded">>,
    <<"eq", "wdc", "WDC">>
  >>

\* src/target-tuple-pieces/src/lib.rs:322-366  (42 rules)
OSRules ==
  <<
    <<"prefix", "ananas", "Ananas">>,
    <<"prefix", "cloudabi", "CloudABI">>,
    <<"prefix", "darwin", "Darwin">>,
    <<"prefix", "dragonfly", "DragonFly">>,
    <<"prefix", "freebsd", "FreeBSD">>,
    <<"prefix", "fuchsia", "Fuchsia">>,
    <<"prefix", "ios", "IOS">>,
    <<"prefix", "kfreebsd", "KFreeBSD">>,
    <<"prefix", "linux", "Linux">>,
    <<"prefix", "lv2", "Lv2">>,
    <<"prefix", "macos", "MacOSX">>,
    <<"prefix", "netbsd", "NetBSD">>,
    <<"prefix", "openbsd", "OpenBSD">>,
    <<"prefix", "solaris", "Solaris">>,
    <<"prefix", "win32", "Win32">>,
    <<"prefix", "windows", "Win32">>,
    <<"prefix", "zos", "ZOS">>,
    <<"prefix", "haiku", "Haiku">>,
    <<"prefix", "minix", "Minix">>,
    <<"prefix", "rtems", "RTEMS">>,
    <<"prefix", "nacl", "NaCl">>,
    <<"prefix", "aix", "AIX">>,
    <<"prefix", "cuda", "CUDA">>,
    <<"prefix", "nvcl", "NVCL">>,
    <<"prefix", "amdhsa", "AMDHSA">>,
    <<"prefix", "ps4", "PS4">>,
    <<"prefix", "elfiamcu", "ELFIAMCU">>,
    <<"prefix", "tvos", "TvOS">>,
    <<"prefix", "watchos", "WatchOS">>,
    <<"prefix", "mesa3d", "Mesa3D">>,
    <<"prefix", "contiki", "Contiki">>,
    <<"prefix", "amdpal", "AMDPAL">>,
    <<"prefix", "hermit", "HermitCore">>,
    <<"prefix", "hurd", "Hurd">>,
    <<"prefix", "wasi", "WASI">>,
    <<"prefix", "emscripten", "Emscripten">>,
    <<"prefix", "snes", "SNES">>,
    <<"prefix", "nes", "NES">>,
    <<"prefix", "cleveros", "CleverOS">>,
    <<"prefix", "ableos", "AbleOS">>,
    <<"prefix", "lilium", "Lilium">>,
    <<"eq", "none", "None">>
  >>

\* src/target-tuple-pieces/src/lib.rs:469-492  (21 rules)
EnvironmentRules ==
  <<
    <<"prefix", "eabihf", "EABIHF">>,
    <<"prefix", "eabi", "EABI">>,
    <<"prefix", "gnuabin32", "GNUABIN32">>,
    <<"prefix", "gnuabi64", "GNUABI64">>,
    <<"prefix", "gnueabihf", "GNUEABIHF">>,
    <<"prefix", "gnueabi", "GNUEABI">>,
    <<"prefix", "gnux32", "GNUX32">>,
    <<"prefix", "gnu", "GNU">>,
    <<"prefix", "code16", "CODE16">>,
    <<"prefix", "android", "Android">>,
    <<"prefix", "musleabihf", "MuslEABIHF">>,
    <<"prefix", "musleabi", "MuslEABI">>,
    <<"prefix", "musl", "Musl">>,
    <<"prefix", "msvc", "MSVC">>,
    <<"prefix", "itanium", "Itanium">>,
    <<"prefix", "cygnus", "Cygnus">>,
    <<"prefix", "coreclr", "CoreCLR">>,
    <<"prefix", "simulator", "Simulator">>,
    <<"prefix", "macabi", "MacABI">>,
    <<"prefix", "std", "Standard">>,
    <<"prefix", "kernel", "Kernel">>
  >>

\* src/target-tuple-pieces/src/lib.rs:563-575  (10 rules)
ObjectFormatRules ==
  <<
    <<"suffix", "xcoff", "XCoff">>,
    <<"suffix", "coff", "Coff">>,
    <<"suffix", "elf", "Elf">>,
    <<"suffix", "goff", "Goff">>,
    <<"suffix", "macho", "MachO">>,
    <<"suffix", "wasm", "Wasm">>,
    <<"suffix", "xo65", "Xo65">>,
    <<"suffix", "o65", "O65">>,
    <<"suffix", "wlaobj", "WlaObj">>,
    <<"suffix", "wla", "WlaObj">>
  >>

\* src/src/pieces.rs:43-72  (60 rules)
pieces_ArchitectureRules ==
  <<
    <<"eq", "i386", "X86">>,
    <<"eq", "i486", "X86">>,
    <<"eq", "i586", "X86">>,
    <<"eq", "i686", "X86">>,
    <<"eq", "i786", "X86">>,
    <<"eq", "i886", "X86">>,
    <<"eq", "i986", "X86">>,
    <<"eq", "amd64", "X86_64">>,
    <<"eq", "x86_64", "X86_64">>,
    <<"eq", "x86_64h", "X86_64">>,
    <<"eq", "armeb", "ArmBe">>,
    <<"eq", "arm", "Arm">>,
    <<"eq", "aarch64", "Aarch64">>,
    <<"eq", "arm64", "Aarch64">>,
    <<"eq", "arm64e", "Aarch64">>,
    <<"eq", "aarch64_be", "Aarch64Be">>,
    <<"eq", "arm64_be", "Aarch64Be">>,
    <<"eq", "aarch64_32", "Aarch64_32">>,
    <<"eq", "arm64_32", "Aarch64_32">>,
    <<"eq", "powerpc", "PowerPC32">>,
    <<"eq", "powerpcspe", "PowerPC32">>,
    <<"eq", "ppc", "PowerPC32">>,
    <<"eq", "ppc32", "PowerPC32">>,
    <<"eq", "powerpc64", "PowerPC64">>,
    <<"eq", "ppu", "PowerPC64">>,
    <<"eq", "ppc64", "PowerPC64">>,
    <<"eq", "powerpc64le", "PowerPC64le">>,
    <<"eq", "ppc64le", "PowerPC64le">>,
    <<"eq", "mips", "Mips">>,
    <<"eq", "mipseb", "Mips">>,
    <<"eq", "mipsallegrex", "Mips">>,
    <<"eq", "mipsisa32r6", "Mips">>,
    <<"eq", "mipsr6", "Mips">>,
    <<"eq", "mipsel", "MipsLE">>,
    <<"eq", "mipsallegrexel", "MipsLE">>,
    <<"eq", "mipsisa32r6el", "MipsLE">>,
    <<"eq", "mipsr6el", "MipsLE">>,
    <<"eq", "mips64", "Mips64">>,
    <<"eq", "mips64eb", "Mips64">>,
    <<"eq", "mipsn32", "Mips64">>,
    <<"eq", "mipsisa64r6", "Mips64">>,
    <<"eq", "mips64r6", "Mips64">>,
    <<"eq", "mipsn32r6", "Mips64">>,
    <<"eq", "mips64el", "Mips64LE">>,
    <<"eq", "mipsn32el", "Mips64LE">>,
    <<"eq", "mipsisa64r6el", "Mips64LE">>,
    <<"eq", "mips64r6el", "Mips64LE">>,
    <<"eq", "mipsn32r6el", "Mips64LE">>,
    <<"eq", "sparc", "Sparc">>,
    <<"eq", "sparcel", "SparcEL">>,
    <<"eq", "sparcv9", "SparcV9">>,
    <<"eq", "sparc64", "SparcV9">>,
    <<"eq", "riscv32", "RiscV32">>,
    <<"eq", "riscv64", "RiscV64">>,
    <<"eq", "wc65c816", "Wc65c816">>,
    <<"eq", "65816", "Wc65c816">>,
    <<"eq", "w65c816", "Wc65c816">>,
    <<"eq", "65c816", "Wc65c816">>,
    <<"eq", "wasm32", "Wasm32">>,
    <<"eq", "wasm64", "Wasm64">>
  >>

\* src/src/pieces.rs:161-184  (16 rules)
pieces_VendorRules ==
  <<
    <<"eq", "apple", "Apple">>,
    <<"eq", "pc", "PC">>,
    <<"eq", "snes", "SNES">>,
    <<"eq", "snesdev", "SNES">>,
    <<"eq", "scei", "SCEI">>,
    <<"eq", "fsl", "Freescale">>,
    <<"eq", "img", "ImaginationTechnologies">>,
    <<"eq", "ibm", "IBM">>,
    <<"eq", "mti", "MipsTechnologies">>,
    <<"eq", "nvidia", "NVIDIA">>,
    <<"eq", "csr", "CSR">>,
    <<"eq", "myriad", "Myriad">>,
    <<"eq", "amd", "AMD">>,
    <<"eq", "mesa", "Mesa">>,
    <<"eq", "suse", "SUSE">>,
    <<"eq", "oe", "OpenEmbedded">>
  >>

\* src/src/pieces.rs:286-331  (37 rules)
pieces_OSRules ==
  <<
    <<"prefix", "ananas", "Ananas">>,
    <<"prefix", "cloudabi", "CloudABI">>,
    <<"prefix", "darwin", "Darwin">>,
    <<"prefix", "dragonfly", "DragonFly">>,
    <<"prefix", "freebsd", "FreeBSD">>,
    <<"prefix", "fuchsia", "Fuchsia">>,
    <<"prefix", "ios", "IOS">>,
    <<"prefix", "kfreebsd", "KFreeBSD">>,
    <<"prefix", "linux", "Linux">>,
    <<"prefix", "lv2", "Lv2">>,
    <<"prefix", "macos", "MacOSX">>,
    <<"prefix", "netbsd", "NetBSD">>,
    <<"prefix", "openbsd", "OpenBSD">>,
    <<"prefix", "solaris", "Solaris">>,
    <<"prefix", "win32", "Win32">>,
    <<"prefix", "windows", "Win32">>,
    <<"prefix", "zos", "ZOS">>,
    <<"prefix", "haiku", "Haiku">>,
    <<"prefix", "minix", "Minix">>,
    <<"prefix", "rtems", "RTEMS">>,
    <<"prefix", "nacl", "NaCl">>,
    <<"prefix", "aix", "AIX">>,
    <<"prefix", "cuda", "CUDA">>,
    <<"prefix", "nvcl", "NVCL">>,
    <<"prefix", "amdhsa", "AMDHSA">>,
    <<"prefix", "ps4", "PS4">>,
    <<"prefix", "elfiamcu", "ELFIAMCU">>,
    <<"prefix", "tvos", "TvOS">>,
    <<"prefix", "watchos", "WatchOS">>,
    <<"prefix", "mesa3d", "Mesa3D">>,
    <<"prefix", "contiki", "Contiki">>,
    <<"prefix", "amdpal", "AMDPAL">>,
    <<"prefix", "hermit", "HermitCore">>,
    <<"prefix", "hurd", "Hurd">>,
    <<"prefix", "wasi", "WASI">>,
    <<"prefix", "emscripten", "Emscripten">>,
    <<"prefix", "phantom", "PhantomOS">>
  >>

\* src/src/pieces.rs:439-468  (23 rules)
pieces_EnvironmentRules ==
  <<
    <<"prefix", "eabihf", "EABIHF">>,
    <<"prefix", "eabi", "EABI">>,
    <<"prefix", "gnuabin32", "GNUABIN32">>,
    <<"prefix", "gnuabi64", "GNUABI64">>,
    <<"prefix", "gnueabihf", "GNUEABIHF">>,
    <<"prefix", "gnueabi", "GNUEABI">>,
    <<"prefix", "gnux32", "GNUX32">>,
    <<"prefix", "gnu", "GNU">>,
    <<"prefix", "code16", "CODE16">>,
    <<"prefix", "android", "Android">>,
    <<"prefix", "musleabihf", "MuslEABIHF">>,
    <<"prefix", "musleabi", "MuslEABI">>,
    <<"prefix", "musl", "Musl">>,
    <<"prefix", "msvc", "MSVC">>,
    <<"prefix", "itanium", "Itanium">>,
    <<"prefix", "cygnus", "Cygnus">>,
    <<"prefix", "coreclr", "CoreCLR">>,
    <<"prefix", "simulator", "Simulator">>,
    <<"prefix", "macabi", "MacABI">>,
    <<"prefix", "pstd", "PhantomStandard">>,
    <<"prefix", "standard", "PhantomStandard">>,
    <<"prefix", "pkrnl", "PhantomKernel">>,
    <<"prefix", "kernel", "PhantomKernel">>
  >>

\* src/src/pieces.rs:548-556  (6 rules)
pieces_ObjectFormatRules ==
  <<
    <<"suffix", "xcoff", "XCoff">>,
    <<"suffix", "coff", "Coff">>,
    <<"suffix", "elf", "Elf">>,
    <<"suffix", "goff", "Goff">>,
    <<"suffix", "macho", "MachO">>,
    <<"suffix", "wasm", "Wasm">>
  >>

-----------------------------------------------------------------------------
(* The field classifiers of target-tuple-pieces *)

Architecture_from_str(s) == first_match(ArchitectureRules, s, 1)

\* Vendor::from_str is infallible: the `_` arm yields Vendor::Unknown
Vendor_from_str(s) ==
  LET r == first_match(VendorRules, s, 1)
  IN  IF is_ok(r) THEN r ELSE Ok("Unknown")

OS_from_str(s) == first_match(OSRules, s, 1)

Environment_from_str(s) == first_match(EnvironmentRules, s, 1)

ObjectFormat_from_str(s) == first_match(ObjectFormatRules, s, 1)

-----------------------------------------------------------------------------
(* System of target-tuple-pieces: { os, env, objfmt }, each an Option *)

Panic(msg) == <<"Panic", msg>>

panicked(r) == r[1] = "Panic"

Ret(v) == <<"Ret", v>>

returned(r) == r[1] = "Ret"

System(os, env, objfmt) == [os |-> os, env |-> env, objfmt |-> objfmt]

\* System::from_pieces without its assertion
System_from_pieces_Unchecked(os, env, objfmt) == Ret(System(os, env, objfmt))

\* assert!(os.is_some() || env.is_some() || objfmt.is_some())
System_from_pieces(os, env, objfmt) ==
  IF ~(is_some(os) \/ is_some(env) \/ is_some(objfmt)) THEN
    Panic("assertion failed: os.is_some() || env.is_some() || objfmt.is_some()")
  ELSE Ret(System(os, env, objfmt))

System_from_os(os) == System(Some(os), None, None)

System_from_os_env(os, env) == System(Some(os), Some(env), None)

System_from_env(env) == System(None, Some(env), None)

System_from_objfmt(objfmt) == System(None, None, Some(objfmt))

\* the '-' branch of System::from_str taking the object format only when the
\* environment fails
System_from_str_split_Exclusive(pair) ==
  LET os     == OS_from_str(pair[1])
      senv   == pair[2]
      env    == Environment_from_str(senv)
      objfmt == ObjectFormat_from_str(senv)
  IN  IF is_err(os) THEN Err
      ELSE IF is_ok(env) THEN Ok(System(Some(os[2]), ok(env), None))
      ELSE IF is_ok(objfmt) THEN Ok(System(Some(os[2]), None, ok(objfmt)))
      ELSE Err

\* the branch of System::from_str taken when the text holds a '-'
System_from_str_split(pair) ==
  LET os     == OS_from_str(pair[1])
      senv   == pair[2]
      env    == Environment_from_str(senv)
      objfmt == ObjectFormat_from_str(senv)
  IN  IF is_err(os) THEN Err
      ELSE IF is_err(env) /\ is_err(objfmt) THEN Err
      ELSE Ok(System(Some(os[2]), ok(env), ok(objfmt)))

\* the branches without '-' of System::from_str classifying all three fields
\* independently
System_from_str_single_Independent(sys) ==
  LET os     == OS_from_str(sys)
      env    == Environment_from_str(sys)
      objfmt == ObjectFormat_from_str(sys)
  IN  IF is_err(os) /\ is_err(env) /\ is_err(objfmt) THEN Err
      ELSE Ok(System(ok(os), ok(env), ok(objfmt)))

\* the branches of System::from_str taken when the text holds no '-'
System_from_str_single(sys) ==
  LET os     == OS_from_str(sys)
      env    == Environment_from_str(sys)
      objfmt == ObjectFormat_from_str(sys)
  IN  IF is_ok(os) THEN Ok(System(Some(os[2]), None, None))
      ELSE IF is_err(env) /\ is_err(objfmt) THEN Err
      ELSE Ok(System(None, ok(env), ok(objfmt)))

System_from_str(sys) ==
  LET so == split_once(sys)
  IN  IF is_some(so) THEN System_from_str_split(unwrap(so))
      ELSE System_from_str_single(sys)

-----------------------------------------------------------------------------
(* The field classifiers of src/pieces.rs, which Target uses *)

pieces_Architecture_from_str(s) == first_match(pieces_ArchitectureRules, s, 1)

\* Architecture::parse with a wrong fallback member
pieces_Architecture_parse_X86(s) ==
  LET r == pieces_Architecture_from_str(s)
  IN  IF is_ok(r) THEN r[2] ELSE "X86"

pieces_Architecture_parse(s) ==
  LET r == pieces_Architecture_from_str(s)
  IN  IF is_ok(r) THEN r[2] ELSE "Unknown"

pieces_Vendor_from_str(s) ==
  LET r == first_match(pieces_VendorRules, s, 1)
  IN  IF is_ok(r) THEN r ELSE Ok("Unknown")

pieces_OS_from_str(s) == first_match(pieces_OSRules, s, 1)

pieces_Environment_from_str(s) == first_match(pieces_EnvironmentRules, s, 1)

pieces_ObjectFormat_from_str(s) == first_match(pieces_ObjectFormatRules, s, 1)

-----------------------------------------------------------------------------
(* Target of src/pieces.rs: { full, arch, vendor, os, env, objfmt }.  The  *)
(* struct stores a Vendor unconditionally; os, env and objfmt are Options. *)

\* a Target that does not keep the text it was parsed from
Target_Unnamed(full, arch, vendor, os, env, objfmt) ==
  [full |-> "", arch |-> arch, vendor |-> vendor,
   os |-> os, env |-> env, objfmt |-> objfmt]

Target(full, arch, vendor, os, env, objfmt) ==
  [full |-> full, arch |-> arch, vendor |-> vendor,
   os |-> os, env |-> env, objfmt |-> objfmt]

\* the if / else-if chain of from_str over the third and fourth segments:
\* Err, or Ok(<<os, env, objfmt>>)
Target_from_str_fields(f3, f4) ==
  LET os3     == pieces_OS_from_str(f3)
      env3    == pieces_Environment_from_str(f3)
      objfmt3 == pieces_ObjectFormat_from_str(f3)
  IN  IF is_some(f4) THEN
        LET env    == ok(pieces_Environment_from_str(unwrap(f4)))
            objfmt == ok(pieces_ObjectFormat_from_str(unwrap(f4)))
        IN  IF is_err(os3) THEN Err
            ELSE IF ~is_some(env) /\ ~is_some(objfmt) THEN Err
            ELSE Ok(<<Some(os3[2]), env, objfmt>>)
      ELSE IF is_ok(os3) THEN Ok(<<Some(os3[2]), None, None>>)
      ELSE IF is_ok(env3) THEN Ok(<<None, Some(env3[2]), ok(objfmt3)>>)
      ELSE IF is_ok(objfmt3) THEN Ok(<<None, None, Some(objfmt3[2])>>)
      ELSE Err

\* <Target as FromStr>::from_str : Err (UnknownError) or Ok(Target)
Target_from_str(s) ==
  LET segs == split(s)
      arch == pieces_Architecture_from_str(segs[1])
      f2   == nth(segs, 2)
      f3   == nth(segs, 3)
      f4   == nth(segs, 4)
  IN  IF is_err(arch) THEN Err
      ELSE IF ~is_some(f2) THEN Err
      ELSE IF ~is_some(f3) THEN Err
      ELSE LET flds == Target_from_str_fields(unwrap(f3), f4)
           IN  IF is_err(flds) THEN Err
               ELSE Ok(Target(s, arch[2], pieces_Vendor_from_str(unwrap(f2))[2],
                              flds[2][1], flds[2][2], flds[2][3]))

\* the if / else-if chain of Target::parse: <<os, env, objfmt>>
Target_parse_fields(f3, f4) ==
  LET os3     == pieces_OS_from_str(f3)
      env3    == pieces_Environment_from_str(f3)
      objfmt3 == pieces_ObjectFormat_from_str(f3)
  IN  IF is_some(f4) THEN
        LET env == pieces_Environment_from_str(unwrap(f4))
        IN  <<Some(IF is_ok(os3) THEN os3[2] ELSE "Unknown"),
              Some(IF is_ok(env) THEN env[2] ELSE "Unknown"),
              ok(pieces_ObjectFormat_from_str(unwrap(f4)))>>
      ELSE IF is_ok(os3) THEN <<Some(os3[2]), None, None>>
      ELSE IF is_ok(env3) THEN <<None, Some(env3[2]), ok(objfmt3)>>
      ELSE IF is_ok(objfmt3) THEN <<None, None, Some(objfmt3[2])>>
      ELSE <<Some("Unknown"), Some("Unknown"), None>>

\* Target::parse : Panic(..) (an unwrap of a missing segment) or Ret(Target)
Target_parse(s) ==
  LET segs == split(s)
      arch == pieces_Architecture_parse(segs[1])
      f2   == nth(segs, 2)
      f3   == nth(segs, 3)
      f4   == nth(segs, 4)
  IN  IF ~is_some(f2) THEN Panic("unwrap of an Err value")
      ELSE IF ~is_some(f3) THEN Panic("unwrap of a None value")
      ELSE LET flds == Target_parse_fields(unwrap(f3), f4)
           IN  Ret(Target(s, arch, pieces_Vendor_from_str(unwrap(f2))[2],
                          flds[1], flds[2], flds[3]))


-----------------------------------------------------------------------------
(* Accessors of Target (src/pieces.rs) *)

\* Target::get_name: the exact name, the text the Target was parsed from
get_name(t) == t.full

get_arch(t) == t.arch

get_vendor(t) == t.vendor

get_operating_system(t) == IF is_some(t.os) THEN unwrap(t.os) ELSE "Unknown"

get_environment(t) == IF is_some(t.env) THEN unwrap(t.env) ELSE "Unknown"

MachOArchitectures == {"Unknown", "Aarch64", "Aarch64_32", "Arm", "X86", "X86_64"}

CoffArchitectures == {"Unknown", "Aarch64", "Aarch64_32", "Arm", "X86", "X86_64"}

XCoffArchitectures == {"PowerPC32", "PowerPC64"}

\* get_object_format without the table of defaults
get_object_format_Elf(t) ==
  IF is_some(t.objfmt) THEN unwrap(t.objfmt) ELSE "Elf"

\* a table with an entry for PowerPC64le on AIX as well
get_object_format_PowerPC64le(t) ==
  IF is_some(t.objfmt) THEN unwrap(t.objfmt)
  ELSE IF t.arch \in MachOArchitectures /\ t.os = Some("MacOSX") THEN "MachO"
  ELSE IF t.arch \in CoffArchitectures /\ t.os = Some("Win32") THEN "Coff"
  ELSE IF t.arch \in XCoffArchitectures \cup {"PowerPC64le"} /\ t.os = Some("AIX")
    THEN "XCoff"
  ELSE "Elf"

get_object_format(t) ==
  IF is_some(t.objfmt) THEN unwrap(t.objfmt)
  ELSE IF t.arch \in MachOArchitectures /\ t.os = Some("MacOSX") THEN "MachO"
  ELSE IF t.arch \in CoffArchitectures /\ t.os = Some("Win32") THEN "Coff"
  ELSE IF t.arch \in XCoffArchitectures /\ t.os = Some("AIX") THEN "XCoff"
  ELSE "Elf"

-----------------------------------------------------------------------------
(* match_targets of src/lib.rs.  A pattern is the sequence of its          *)
(* fragments, each an identifier or "*".                                   *)

is_wild(frag) == frag = "*"

\* which fragments of a pattern are `*`: what selects the macro rule
shape(pat) == [i \in 1..Len(pat) |-> is_wild(pat[i])]

\* the rules of __match_target_pattern, in their order: the shape each
\* accepts, the text it hands to Target::parse for each `*`, and the
\* accessors it compares ("eq" is the comparison of the whole Targets)
MatchRules ==
  <<
    <<<<FALSE, FALSE, FALSE, FALSE>>, <<"", "", "", "">>, {"eq"}>>,
    <<<<FALSE, FALSE, FALSE>>, <<"", "", "">>, {"eq"}>>,
    <<<<TRUE, FALSE, FALSE, FALSE>>, <<"x86_64", "", "", "">>,
      {"vendor", "operating_system", "environment", "object_format"}>>,
    <<<<TRUE, FALSE, FALSE>>, <<"x86_64", "", "">>,
      {"vendor", "operating_system", "environment", "object_format"}>>,
    <<<<FALSE, TRUE, FALSE, FALSE>>, <<"", "unknown", "", "">>,
      {"arch", "operating_system", "environment", "object_format"}>>,
    <<<<FALSE, TRUE, FALSE>>, <<"", "unknown", "">>,
      {"arch", "operating_system", "environment", "object_format"}>>,
    <<<<FALSE, FALSE, TRUE, FALSE>>, <<"", "", "none", "">>,
      {"arch", "vendor", "environment", "object_format"}>>,
    <<<<FALSE, FALSE, TRUE>>, <<"", "", "elf">>, {"arch", "vendor"}>>,
    <<<<FALSE, FALSE, FALSE, TRUE>>, <<"", "", "", "elf">>,
      {"vendor", "operating_system"}>>,
    <<<<TRUE, TRUE, FALSE, FALSE>>, <<"x86_64", "unknown", "", "">>,
      {"operating_system", "environment", "object_format"}>>,
    <<<<TRUE, TRUE, FALSE>>, <<"x86_64", "unknown", "">>,
      {"operating_system", "environment", "object_format"}>>,
    <<<<TRUE, FALSE, TRUE, FALSE>>, <<"x86_64", "", "none", "">>,
      {"vendor", "environment", "object_format"}>>,
    <<<<TRUE, FALSE, TRUE>>, <<"x86_64", "", "elf">>, {"vendor"}>>,
    <<<<TRUE, FALSE, FALSE, TRUE>>, <<"x86_64", "", "", "elf">>,
      {"vendor", "operating_system"}>>,
    <<<<FALSE, TRUE, TRUE, FALSE>>, <<"", "unknown", "none", "">>,
      {"arch", "environment", "object_format"}>>,
    <<<<FALSE, TRUE, TRUE>>, <<"", "unknown", "elf">>, {"arch"}>>,
    <<<<FALSE, TRUE, FALSE, TRUE>>, <<"", "unknown", "", "elf">>,
      {"arch", "operating_system"}>>,
    <<<<TRUE, TRUE, TRUE, FALSE>>, <<"x86_64", "unknown", "none", "">>,
      {"environment", "object_format"}>>,
    <<<<TRUE, TRUE, FALSE, TRUE>>, <<"x86_64", "unknown", "", "elf">>,
      {"operating_system"}>>,
    <<<<TRUE, TRUE, TRUE>>, <<"", "", "">>, {}>>,
    <<<<TRUE>>, <<"">>, {}>>
  >>

\* the first rule whose shape is the pattern's, or 0: no rule, a compile error
RECURSIVE match_rule(_, _)
match_rule(pat, i) ==
  IF i > Len(MatchRules) THEN 0
  ELSE IF MatchRules[i][1] = shape(pat) THEN i
  ELSE match_rule(pat, i + 1)

\* __to_target!: the fragments joined by "-"
RECURSIVE to_target(_)
to_target(frags) ==
  IF Len(frags) = 1 THEN frags[1]
  ELSE frags[1] \o "-" \o to_target(Tail(frags))

\* the Target a rule builds for its pattern: Target::parse of the pattern's
\* text, with the rule's stand-in for each `*`
mtarg(pat, rule) ==
  Target_parse(to_target([i \in 1..Len(pat) |->
                            IF is_wild(pat[i]) THEN rule[2][i] ELSE pat[i]]))[2]

\* the equality of two Targets
Target_eq(a, b) ==
  /\ a.arch = b.arch
  /\ a.vendor = b.vendor
  /\ a.os = b.os
  /\ a.env = b.env
  /\ a.objfmt = b.objfmt

accessor(name, t) ==
  CASE name = "arch"             -> get_arch(t)
    [] name = "vendor"           -> get_vendor(t)
    [] name = "operating_system" -> get_operating_system(t)
    [] name = "environment"      -> get_environment(t)
    [] name = "object_format"    -> get_object_format(t)

\* the __check function a pattern expands to, applied to targ
match_target_pattern(pat, targ) ==
  LET rule == MatchRules[match_rule(pat, 1)]
      m    == mtarg(pat, rule)
  IN  IF rule[3] = {} THEN TRUE
      ELSE IF rule[3] = {"eq"} THEN Target_eq(targ, m)
      ELSE \A name \in rule[3] : accessor(name, targ) = accessor(name, m)

-----------------------------------------------------------------------------
(* Canonical names: canonical_name of each enumeration, as the table of its *)
(* match arms <<member, name>>                                              *)

\* src/target-tuple-pieces/src/lib.rs:131-174  (26 arms)
ArchitectureNames ==
  <<
    <<Arch("Unknown"), "unknown">>,
    <<Arch("Arm"), "arm">>,
    <<Arch("ArmBe"), "armeb">>,
    <<Arch("Aarch64"), "aarch64">>,
    <<Arch("Aarch64Be"), "aarch64_be">>,
    <<Arch("Aarch64_32"), "aarch64_32">>,
    <<Arch("Mips"), "mips">>,
    <<Arch("Mips64"), "mips64">>,
    <<Arch("PowerPC32"), "powerpc">>,
    <<Arch("PowerPC64"), "powerpc64">>,
    <<Arch("PowerPC64le"), "powerpc64le">>,
    <<Arch("RiscV32"), "riscv32">>,
    <<Arch("RiscV64"), "riscv64">>,
    <<Arch("Sparc"), "sparc">>,
    <<Arch("SparcV9"), "sparcv9">>,
    <<Arch("SparcEL"), "sparcel">>,
    <<Arch("Wasm32"), "wasm32">>,
    <<Arch("Wasm64"), "wasm64">>,
    <<Arch("Wc65c816"), "w65">>,
    <<Arch("MipsLE"), "mipsel">>,
    <<Arch("Mips64LE"), "mips64el">>,
    <<Arch("M6502"), "6502">>,
    <<Arch("M65C02"), "6502">>,
    <<Arch("SPC700"), "spc700">>,
    <<Arch("Clever"), "clever">>,
    <<Arch("HoleyBytes"), "holeybytes">>
  >>

\* src/target-tuple-pieces/src/lib.rs:246-265  (16 arms)
VendorNames ==
  <<
    <<"Apple", "apple">>,
    <<"PC", "pc">>,
    <<"Unknown", "unknown">>,
    <<"SCEI", "scei">>,
    <<"Freescale", "fsl">>,
    <<"IBM", "ibm">>,
    <<"ImaginationTechnologies", "img">>,
    <<"MipsTechnologies", "mti">>,
    <<"NVIDIA", "nvidia">>,
    <<"CSR", "csr">>,
    <<"Myriad", "myriad">>,
    <<"AMD", "amd">>,
    <<"Mesa", "mesa">>,
    <<"SUSE", "suse">>,
    <<"OpenEmbedded", "oe">>,
    <<"WDC", "wdc">>
  >>

\* src/target-tuple-pieces/src/lib.rs:387-432  (42 arms)
OSNames ==
  <<
    <<"Unknown", "unknown">>,
    <<"Ananas", "ananas">>,
    <<"CloudABI", "cloudabi">>,
    <<"Darwin", "darwin">>,
    <<"DragonFly", "dragonfly">>,
    <<"FreeBSD", "freebsd">>,
    <<"Fuchsia", "fuchsia">>,
    <<"IOS", "ios">>,
    <<"KFreeBSD", "kfreebsd">>,
    <<"Linux", "linux">>,
    <<"Lv2", "lv2">>,
    <<"MacOSX", "macos">>,
    <<"NetBSD", "netbsd">>,
    <<"OpenBSD", "openbsd">>,
    <<"Solaris", "solaris">>,
    <<"Win32", "win32">>,
    <<"ZOS", "zos">>,
    <<"Haiku", "haiku">>,
    <<"Minix", "minix">>,
    <<"RTEMS", "rtems">>,
    <<"NaCl", "nacl">>,
    <<"AIX", "aix">>,
    <<"CUDA", "cuda">>,
    <<"NVCL", "nvcl">>,
    <<"AMDHSA", "amdhsa">>,
    <<"PS4", "ps4">>,
    <<"ELFIAMCU", "elfiamcu">>,
    <<"TvOS", "tvos">>,
    <<"WatchOS", "watchos">>,
    <<"Mesa3D", "mesa3d">>,
    <<"Contiki", "contiki">>,
    <<"AMDPAL", "amdpal">>,
    <<"HermitCore", "hermit">>,
    <<"Hurd", "hurd">>,
    <<"WASI", "wasi">>,
    <<"Emscripten", "emscripten">>,
    <<"SNES", "snes">>,
    <<"NES", "nes">>,
    <<"None", "none">>,
    <<"CleverOS", "cleveros">>,
    <<"AbleOS", "ableos">>,
    <<"Lilium", "lilium">>
  >>

\* src/target-tuple-pieces/src/lib.rs:513-538  (22 arms)
EnvironmentNames ==
  <<
    <<"Unknown", "unknown">>,
    <<"GNU", "gnu">>,
    <<"GNUABIN32", "gnuabin32">>,
    <<"GNUABI64", "gnuabi64">>,
    <<"GNUEABI", "gnueabi">>,
    <<"GNUEABIHF", "gnueabihf">>,
    <<"GNUX32", "gnux32">>,
    <<"CODE16", "code16">>,
    <<"EABI", "eabi">>,
    <<"EABIHF", "eabihf">>,
    <<"Android", "android">>,
    <<"Musl", "musl">>,
    <<"MuslEABI", "musleabi">>,
    <<"MuslEABIHF", "musleabihf">>,
    <<"MSVC", "msvc">>,
    <<"Itanium", "itanium">>,
    <<"Cygnus", "cygnus">>,
    <<"CoreCLR", "coreclr">>,
    <<"Simulator", "simulator">>,
    <<"MacABI", "macabi">>,
    <<"Standard", "std">>,
    <<"Kernel", "kernel">>
  >>

\* src/target-tuple-pieces/src/lib.rs:596-609  (10 arms)
ObjectFormatNames ==
  <<
    <<"Unknown", "unknown">>,
    <<"XCoff", "xcoff">>,
    <<"Coff", "coff">>,
    <<"Elf", "elf">>,
    <<"Goff", "goff">>,
    <<"MachO", "macho">>,
    <<"Wasm", "wasm">>,
    <<"Xo65", "xo65">>,
    <<"O65", "o65">>,
    <<"WlaObj", "wlaobj">>
  >>

\* src/src/pieces.rs:109-135  (23 arms)
pieces_ArchitectureNames ==
  <<
    <<"Unknown", "unknown">>,
    <<"X86", "i386">>,
    <<"X86_64", "x86_64">>,
    <<"Arm", "arm">>,
    <<"ArmBe", "armeb">>,
    <<"Aarch64", "aarch64">>,
    <<"Aarch64Be", "aarch64_be">>,
    <<"Aarch64_32", "aarch64_32">>,
    <<"Mips", "mips">>,
    <<"Mips64", "mips64">>,
    <<"PowerPC32", "powerpc">>,
    <<"PowerPC64", "powerpc64">>,
    <<"PowerPC64le", "powerpc64le">>,
    <<"RiscV32", "riscv32">>,
    <<"RiscV64", "riscv64">>,
    <<"Sparc", "sparc">>,
    <<"SparcV9", "sparcv9">>,
    <<"SparcEL", "sparcel">>,
    <<"Wasm32", "wasm32">>,
    <<"Wasm64", "wasm64">>,
    <<"Wc65c816", "wc65c816">>,
    <<"MipsLE", "mipsel">>,
    <<"Mips64LE", "mips64el">>
  >>

\* src/src/pieces.rs:219-238  (16 arms)
pieces_VendorNames ==
  <<
    <<"Apple", "apple">>,
    <<"PC", "pc">>,
    <<"SNES", "snes">>,
    <<"Unknown", "unknown">>,
    <<"SCEI", "scei">>,
    <<"Freescale", "fsl">>,
    <<"IBM", "ibm">>,
    <<"ImaginationTechnologies", "img">>,
    <<"MipsTechnologies", "mti">>,
    <<"NVIDIA", "nvidia">>,
    <<"CSR", "csr">>,
    <<"Myriad", "myriad">>,
    <<"AMD", "amd">>,
    <<"Mesa", "mesa">>,
    <<"SUSE", "suse">>,
    <<"OpenEmbedded", "oe">>
  >>

\* src/src/pieces.rs:365-405  (37 arms)
pieces_OSNames ==
  <<
    <<"Unknown", "unknown">>,
    <<"Ananas", "ananas">>,
    <<"CloudABI", "cloudabi">>,
    <<"Darwin", "darwin">>,
    <<"DragonFly", "dragonfly">>,
    <<"FreeBSD", "freebsd">>,
    <<"Fuchsia", "fuchsia">>,
    <<"IOS", "ios">>,
    <<"KFreeBSD", "kfreebsd">>,
    <<"Linux", "linux">>,
    <<"Lv2", "lv2">>,
    <<"MacOSX", "macos">>,
    <<"NetBSD", "netbsd">>,
    <<"OpenBSD", "openbsd">>,
    <<"Solaris", "solaris">>,
    <<"Win32", "win32">>,
    <<"ZOS", "zos">>,
    <<"Haiku", "haiku">>,
    <<"Minix", "minix">>,
    <<"RTEMS", "rtems">>,
    <<"NaCl", "nacl">>,
    <<"AIX", "aix">>,
    <<"CUDA", "cuda">>,
    <<"NVCL", "nvcl">>,
    <<"AMDHSA", "amdhsa">>,
    <<"PS4", "ps4">>,
    <<"ELFIAMCU", "elfiamcu">>,
    <<"TvOS", "tvos">>,
    <<"WatchOS", "watchos">>,
    <<"Mesa3D", "mesa3d">>,
    <<"Contiki", "contiki">>,
    <<"AMDPAL", "amdpal">>,
    <<"HermitCore", "hermit">>,
    <<"Hurd", "hurd">>,
    <<"WASI", "wasi">>,
    <<"Emscripten", "emscripten">>,
    <<"PhantomOS", "phantom">>
  >>

\* src/src/pieces.rs:502-527  (22 arms)
pieces_EnvironmentNames ==
  <<
    <<"Unknown", "unknown">>,
    <<"GNU", "gnu">>,
    <<"GNUABIN32", "gnuabin32">>,
    <<"GNUABI64", "gnuabi64">>,
    <<"GNUEABI", "gnueabi">>,
    <<"GNUEABIHF", "gnueabihf">>,
    <<"GNUX32", "gnux32">>,
    <<"CODE16", "code16">>,
    <<"EABI", "eabi">>,
    <<"EABIHF", "eabihf">>,
    <<"Android", "android">>,
    <<"Musl", "musl">>,
    <<"MuslEABI", "musleabi">>,
    <<"MuslEABIHF", "musleabihf">>,
    <<"MSVC", "msvc">>,
    <<"Itanium", "itanium">>,
    <<"Cygnus", "cygnus">>,
    <<"CoreCLR", "coreclr">>,
    <<"Simulator", "simulator">>,
    <<"MacABI", "macabi">>,
    <<"PhantomStandard", "pstd">>,
    <<"PhantomKernel", "pkrnl">>
  >>

\* src/src/pieces.rs:594-604  (7 arms)
pieces_ObjectFormatNames ==
  <<
    <<"Unknown", "unknown">>,
    <<"XCoff", "xcoff">>,
    <<"Coff", "coff">>,
    <<"Elf", "elf">>,
    <<"Goff", "goff">>,
    <<"MachO", "macho">>,
    <<"Wasm", "wasm">>
  >>

\* the match of canonical_name on a member without payload
RECURSIVE name_of(_, _, _)
name_of(names, v, i) ==
  IF names[i][1] = v THEN names[i][2] ELSE name_of(names, v, i + 1)

members_of(names) == {names[i][1] : i \in 1..Len(names)}

Architecture_canonical_name(a) ==
  CASE a.tag = "X86_16" ->
         (IF a.n = 0 THEN "i86" ELSE IF a.n = 1 THEN "i186" ELSE "i286")
    [] a.tag = "X86_32" ->
         (IF a.n <= 3 THEN "i386" ELSE IF a.n = 4 THEN "i486"
          ELSE IF a.n = 5 THEN "i586" ELSE IF a.n = 6 THEN "i686" ELSE "i786")
    [] a.tag = "X86_64" ->
         (IF a.n = 2 THEN "x86_64v2" ELSE IF a.n = 3 THEN "x86_64v3"
          ELSE IF a.n = 4 THEN "x86_64v4" ELSE "x86_64")
    [] OTHER -> name_of(ArchitectureNames, a, 1)

\* the table of the canonical_name of an enumeration; pieces:: names the
\* enumerations of pieces.rs
Names(enum) ==
  CASE enum = "Architecture" -> ArchitectureNames
    [] enum = "Vendor" -> VendorNames
    [] enum = "OS" -> OSNames
    [] enum = "Environment" -> EnvironmentNames
    [] enum = "ObjectFormat" -> ObjectFormatNames
    [] enum = "pieces::Architecture" -> pieces_ArchitectureNames
    [] enum = "pieces::Vendor" -> pieces_VendorNames
    [] enum = "pieces::OS" -> pieces_OSNames
    [] enum = "pieces::Environment" -> pieces_EnvironmentNames
    [] enum = "pieces::ObjectFormat" -> pieces_ObjectFormatNames

canonical_name(enum, v) ==
  IF enum = "Architecture" THEN Architecture_canonical_name(v)
  ELSE name_of(Names(enum), v, 1)

from_str(enum, s) ==
  CASE enum = "Architecture" -> Architecture_from_str(s)
    [] enum = "Vendor" -> Vendor_from_str(s)
    [] enum = "OS" -> OS_from_str(s)
    [] enum = "Environment" -> Environment_from_str(s)
    [] enum = "ObjectFormat" -> ObjectFormat_from_str(s)
    [] enum = "pieces::Architecture" -> pieces_Architecture_from_str(s)
    [] enum = "pieces::Vendor" -> pieces_Vendor_from_str(s)
    [] enum = "pieces::OS" -> pieces_OS_from_str(s)
    [] enum = "pieces::Environment" -> pieces_Environment_from_str(s)
    [] enum = "pieces::ObjectFormat" -> pieces_ObjectFormat_from_str(s)

\* the Unknown member of an enumeration
Unknown(enum) == IF enum = "Architecture" THEN Arch("Unknown") ELSE "Unknown"

\* parse: from_str(s).unwrap_or(Unknown); Vendor's from_str never fails
parse(enum, s) ==
  LET r == from_str(enum, s)
  IN  IF is_ok(r) THEN r[2] ELSE Unknown(enum)

-----------------------------------------------------------------------------
(* Rendering: Display of System (target-tuple-pieces) and of Target        *)
(* (pieces.rs)                                                             *)

\* a rendering that puts the separator before every field after the first
System_fmt_Joined(sys) ==
  LET os_text  == IF is_some(sys.os) THEN canonical_name("OS", unwrap(sys.os)) ELSE ""
      sep1     == IF is_some(sys.os) THEN "-" ELSE ""
      env_text == IF is_some(sys.env)
                  THEN sep1 \o canonical_name("Environment", unwrap(sys.env)) ELSE ""
      sep2     == IF is_some(sys.env) THEN "-" ELSE sep1
      obj_text == IF is_some(sys.objfmt)
                  THEN sep2 \o canonical_name("ObjectFormat", unwrap(sys.objfmt)) ELSE ""
  IN  os_text \o env_text \o obj_text

\* <System as Display>::fmt: the text written, with sep as the code keeps it
System_fmt(sys) ==
  LET os_text  == IF is_some(sys.os) THEN canonical_name("OS", unwrap(sys.os)) ELSE ""
      sep1     == IF is_some(sys.os) THEN "-" ELSE ""
      env_text == IF is_some(sys.env)
                  THEN sep1 \o canonical_name("Environment", unwrap(sys.env)) ELSE ""
      sep2     == IF is_some(sys.env) THEN "" ELSE sep1
      obj_text == IF is_some(sys.objfmt)
                  THEN sep2 \o canonical_name("ObjectFormat", unwrap(sys.objfmt)) ELSE ""
  IN  os_text \o env_text \o obj_text

\* <Target as Display>::fmt of pieces.rs, with last_field_sep as the code keeps it
Target_fmt(t) ==
  LET head     == canonical_name("pieces::Architecture", t.arch) \o "-"
                    \o canonical_name("pieces::Vendor", t.vendor)
      os_text  == IF is_some(t.os)
                  THEN "-" \o canonical_name("pieces::OS", unwrap(t.os)) ELSE ""
      last_field_sep == ~is_some(t.env)
      env_text == IF is_some(t.env)
                  THEN "-" \o canonical_name("pieces::Environment", unwrap(t.env)) ELSE ""
      obj_text == IF is_some(t.objfmt)
                  THEN (IF last_field_sep THEN "-" ELSE "")
                         \o canonical_name("pieces::ObjectFormat", unwrap(t.objfmt))
                  ELSE ""
  IN  head \o os_text \o env_text \o obj_text

\* Target::from_components: full is the Display text of the Target
Target_from_components(arch, vendor, os, env, objfmt) ==
  LET ret == Target("", arch, vendor, os, env, objfmt)
  IN  [ret EXCEPT !.full = Target_fmt(ret)]

-----------------------------------------------------------------------------
(* The pattern compiler of target-tuples-macro.  An arm's left side is the  *)
(* sequence of its fragment tokens, each an identifier or "*".  A compiled  *)
(* field pattern is <<"_">>, <<"lit", v>>, <<"Some(_)">> or                 *)
(* <<"Some(_) | None">>; a compiled arm is the one-element <<"_">> pattern  *)
(* or a tuple of five field patterns.                                       *)

\* struct Error { span, msg }
Error(msg) == <<"Error", msg>>

WildcardRest == [frag |-> "WildcardRest"]

WildcardPos == [frag |-> "WildcardPos"]

Ident(i) == [frag |-> "Ident", i |-> i]

\* the token trees of an arm list: a Punct is one of these characters, a
\* Group is a delimited token stream taken as one token, an Ident is any
\* other text
Puncts == {"-", "=", ">", ",", "+", "*"}

Groups == {"{}", "()"}

try_into_frag(tt, has_tail) ==
  IF tt \in Puncts THEN
    (IF tt = "*" THEN Ok(IF has_tail THEN WildcardPos ELSE WildcardRest)
     ELSE Error("Expected * or identifier, got " \o tt))
  ELSE IF tt \in Groups THEN Error("Expected * or identifier, got " \o tt)
  ELSE IF starts_with(tt, "r#") THEN Ok(Ident(SubSeq(tt, 3, Len(tt))))
  ELSE Ok(Ident(tt))

\* the loop of parse_match_arm that collects `left`: every fragment before a
\* '-' has a tail, the one before `=>` has none
left_frags(pat) ==
  IF Len(pat) > 5 THEN Error("Expected at most 4 components")
  ELSE Ok([k \in 1..Len(pat) |-> try_into_frag(pat[k], k < Len(pat))[2]])

Wildcard == <<"_">>

SomeWildcard == <<"Some(_)">>

SomeOrNone == <<"Some(_) | None">>

\* AsConstructor::into_ctor of a piece: the pattern of exactly that value
into_ctor(piece) == <<"lit", piece>>

\* pad_with_wildcard with Some(_) in place of _
pad_with_wildcard_Some(targ, components) ==
  targ \o [k \in 1..(5 - components) |-> SomeWildcard]

pad_with_wildcard(targ, components) ==
  targ \o [k \in 1..(5 - components) |-> Wildcard]

arch_ctor(arch) ==
  IF arch.frag = "Ident" THEN
    LET piece == Architecture_from_str(arch.i)
    IN  IF is_ok(piece) THEN Ok(into_ctor(piece[2]))
        ELSE Error("Unknown architecture " \o arch.i)
  ELSE Ok(Wildcard)

\* a vendor literal compiled without classifying it
vendor_ctor_Unclassified(vendor) ==
  IF vendor.frag = "Ident" THEN into_ctor("Unknown") ELSE Wildcard

vendor_ctor(vendor) ==
  IF vendor.frag = "Ident" THEN into_ctor(Vendor_from_str(vendor.i)[2])
  ELSE Wildcard

os_ctor(os) ==
  IF os.frag = "Ident" THEN
    LET piece == OS_from_str(os.i)
    IN  IF is_ok(piece) THEN Ok(into_ctor(Some(piece[2])))
        ELSE Error("Unknown operating system " \o os.i)
  ELSE Ok(SomeWildcard)

\* sys_ctor leaving an absent field of the System unconstrained
sys_ctor_Lenient(sys) ==
  LET piece == System_from_str(sys.i)
      pat(f) == IF f = None THEN Wildcard ELSE into_ctor(f)
  IN  IF is_ok(piece) THEN
        Ok(<<pat(piece[2].os), pat(piece[2].env), pat(piece[2].objfmt)>>)
      ELSE Error("Unknown system " \o sys.i)

\* the last fragment of arch-vendor-sys
sys_ctor(sys) ==
  LET piece == System_from_str(sys.i)
  IN  IF is_ok(piece) THEN
        Ok(<<into_ctor(piece[2].os), into_ctor(piece[2].env),
             into_ctor(piece[2].objfmt)>>)
      ELSE Error("Unknown system " \o sys.i)

\* the last fragment of arch-vendor-os-envobj
envobj_ctor(envobj) ==
  IF envobj.frag = "Ident" THEN
    LET piece == System_from_str(envobj.i)
    IN  IF ~is_ok(piece) THEN Error("Unknown system " \o envobj.i)
        ELSE IF piece[2].os # None THEN
          Error("Operating system " \o envobj.i \o " not expected")
        ELSE Ok(<<into_ctor(piece[2].env), into_ctor(piece[2].objfmt)>>)
  ELSE Ok(<<SomeOrNone, SomeOrNone>>)

\* a match on `left` that compiles a pattern of any length to the wildcard
left_match_AnyLength(left) == Ok(<<Wildcard>>)

\* the match on `left` of parse_match_arm
left_match(left) ==
  LET n    == Len(left)
      last == left[n]
      arch == arch_ctor(left[1])
  IN  IF n = 1 /\ last.frag = "WildcardRest" THEN Ok(<<Wildcard>>)
      ELSE IF n = 2 /\ last.frag = "WildcardRest" THEN
        IF ~is_ok(arch) THEN arch
        ELSE Ok(pad_with_wildcard(<<arch[2]>>, 1))
      ELSE IF n = 3 /\ last.frag = "WildcardRest" THEN
        IF ~is_ok(arch) THEN arch
        ELSE Ok(pad_with_wildcard(<<arch[2], vendor_ctor(left[2])>>, 2))
      ELSE IF n = 3 THEN
        LET sys == sys_ctor(last)
        IN  IF ~is_ok(arch) THEN arch
            ELSE IF ~is_ok(sys) THEN sys
            ELSE Ok(<<arch[2], vendor_ctor(left[2])>> \o sys[2])
      ELSE IF n = 4 THEN
        LET os     == os_ctor(left[3])
            envobj == envobj_ctor(last)
        IN  IF ~is_ok(arch) THEN arch
            ELSE IF ~is_ok(os) THEN os
            ELSE IF ~is_ok(envobj) THEN envobj
            ELSE Ok(<<arch[2], vendor_ctor(left[2]), os[2]>> \o envobj[2])
      ELSE IF last.frag = "Ident" THEN
        Error("Target must have at least 3 components if it doesn't end with a wildcard")
      ELSE Panic("internal error: entered unreachable code")

parse_match_arm(pat) ==
  LET left == left_frags(pat)
  IN  IF is_ok(left) THEN left_match(left[2]) ELSE left

\* the first loop of parse_match_arm over the token iterator: Error, or
\* Ok(<<left, iter>>) with the iterator after the `=>`
RECURSIVE collect_left(_, _)
collect_left(iter, left) ==
  IF Len(iter) = 0 THEN Error("Unexpected EOF")
  ELSE IF Len(iter) = 1 THEN Error("Expected - or =>, got unexpected EOF")
  ELSE
    LET frag == iter[1]
        p    == iter[2]
    IN  IF p \notin Puncts THEN Error("Expected -, got " \o p)
        ELSE IF p = "-" THEN
          IF Len(left) = 4 THEN Error("Expected at most 4 components")
          ELSE LET f == try_into_frag(frag, TRUE)
               IN  IF ~is_ok(f) THEN f
                   ELSE collect_left(SubSeq(iter, 3, Len(iter)), Append(left, f[2]))
        ELSE IF p = "=" THEN
          IF Len(iter) = 2 THEN Error("Expected =>, got unexpected EOF")
          ELSE IF iter[3] # ">" THEN Error("Expected =>, got " \o iter[3])
          ELSE LET f == try_into_frag(frag, FALSE)
               IN  IF ~is_ok(f) THEN f
                   ELSE Ok(<<Append(left, f[2]), SubSeq(iter, 4, Len(iter))>>)
        ELSE Error("Expected -, got " \o p)

\* a second loop that ends the result at a `,` or at the end of input only
RECURSIVE collect_right_Comma(_, _)
collect_right_Comma(iter, right) ==
  IF Len(iter) = 0 THEN Error("Unexpected EOF")
  ELSE
    LET rest   == Tail(iter)
        pushed == Append(right, iter[1])
    IN  IF Len(rest) = 0 THEN Ok(<<pushed, rest>>)
        ELSE IF rest[1] = "," THEN Ok(<<pushed, Tail(rest)>>)
        ELSE collect_right_Comma(rest, pushed)

\* the second loop of parse_match_arm: Error, or Ok(<<right, iter>>) with the
\* iterator after the arm
RECURSIVE collect_right(_, _)
collect_right(iter, right) ==
  IF Len(iter) = 0 THEN Error("Unexpected EOF")
  ELSE
    LET expr_comp == iter[1]
        rest      == Tail(iter)
        pushed    == Append(right, expr_comp)
    IN  IF Len(rest) = 0 THEN Ok(<<pushed, rest>>)
        ELSE IF rest[1] = "," THEN Ok(<<pushed, Tail(rest)>>)
        ELSE IF expr_comp = "{}" THEN Ok(<<pushed, rest>>)
        ELSE collect_right(rest, pushed)

\* parse_match_arm on the token iterator: Ok(None) at the end of input,
\* Error, Panic, or Ok(Some(..)) with the compiled pattern, the tokens of the
\* result, and the iterator left for the next arm
parse_match_arm_iter(iter) ==
  IF Len(iter) = 0 THEN Ok(None)
  ELSE
    LET l == collect_left(iter, <<>>)
    IN  IF ~is_ok(l) THEN l
        ELSE
          LET r == collect_right(l[2][2], <<>>)
          IN  IF ~is_ok(r) THEN r
              ELSE
                LET m == left_match(l[2][1])
                IN  IF ~is_ok(m) THEN m
                    ELSE Ok(Some([left |-> m[2], right |-> r[2][1],
                                  iter |-> r[2][2]]))

\* while let Some(v) = parse_match_arm(..)? { arms.extend(v) }
RECURSIVE parse_arms(_, _)
parse_arms(arms, i) ==
  IF i > Len(arms) THEN Ok(<<>>)
  ELSE LET v == parse_match_arm(arms[i])
       IN  IF ~is_ok(v) THEN v
           ELSE LET more == parse_arms(arms, i + 1)
                IN  IF ~is_ok(more) THEN more ELSE Ok(<<v[2]>> \o more[2])

impl_match_targets(arms) == parse_arms(arms, 1)

\* CanonicalTarget { arch, vendor, sys }
CanonicalTarget(arch, vendor, sys) == [arch |-> arch, vendor |-> vendor, sys |-> sys]

X86Family == {"X86_16", "X86_32", "X86_64"}

guess_vendor(t) ==
  IF is_some(t.vendor) THEN unwrap(t.vendor)
  ELSE IF t.arch.tag \in X86Family THEN "PC"
  ELSE IF t.arch.tag = "Wc65c816" THEN "WDC"
  ELSE "Unknown"

\* the scrutinee of the emitted match
fields(t) == <<t.arch, guess_vendor(t), t.sys.os, t.sys.env, t.sys.objfmt>>

field_matches(p, v) ==
  CASE p[1] = "_"              -> TRUE
    [] p[1] = "lit"            -> v = p[2]
    [] p[1] = "Some(_)"        -> is_some(v)
    [] p[1] = "Some(_) | None" -> TRUE

arm_pattern_matches(arm, f) ==
  IF Len(arm) = 1 THEN TRUE
  ELSE \A k \in 1..5 : field_matches(arm[k], f[k])

\* a Rust match takes the first arm whose pattern matches; 0 if there is none
RECURSIVE first_arm(_, _, _)
first_arm(compiled, f, i) ==
  IF i > Len(compiled) THEN 0
  ELSE IF arm_pattern_matches(compiled[i], f) THEN i
  ELSE first_arm(compiled, f, i + 1)

\* rustc accepts the emitted match only if its arms are exhaustive.  The
\* enums are non_exhaustive (Environment has more members than an arm list
\* names), so each field always has a value that no literal names
other == "#[non_exhaustive]"

literals(compiled, k) ==
  {compiled[i][k][2] : i \in {j \in 1..Len(compiled) :
                                Len(compiled[j]) = 5 /\ compiled[j][k][1] = "lit"}}

exhaustive(compiled) ==
  \A a \in literals(compiled, 1) \cup {Arch(other)},
     v \in literals(compiled, 2) \cup {other},
     o \in literals(compiled, 3) \cup {None, Some(other)},
     e \in literals(compiled, 4) \cup {None, Some(other)},
     f \in literals(compiled, 5) \cup {None, Some(other)} :
       first_arm(compiled, <<a, v, o, e, f>>, 1) # 0

-----------------------------------------------------------------------------
(* The Target of the specification: disambiguation (section 4.1) and        *)
(* canonical rendering (section 4.3), over the classifiers, System::from_str *)
(* and the Display of System of target-tuple-pieces                          *)

\* disambiguate(text): Err (UnknownFormat) or Ok(CanonicalTarget)
disambiguate(text) ==
  LET s1 == split_once(text)
  IN  IF ~is_some(s1) THEN Err
      ELSE
        LET arch      == Architecture_from_str(unwrap(s1)[1])
            remainder == unwrap(s1)[2]
            s2        == split_once(remainder)
            whole     == System_from_str(remainder)
        IN  IF is_err(arch) THEN Err
            ELSE IF ~is_some(s2) THEN
              (IF is_err(whole) THEN Err
               ELSE Ok(CanonicalTarget(arch[2], None, whole[2])))
            ELSE
              LET a   == unwrap(s2)[1]
                  b   == unwrap(s2)[2]
                  sys == System_from_str(b)
              IN  IF find_dash(b, 1) = 0 /\ is_ok(whole)
                  THEN Ok(CanonicalTarget(arch[2], None, whole[2]))
                  ELSE IF is_err(sys) THEN Err
                  ELSE Ok(CanonicalTarget(arch[2], Some(Vendor_from_str(a)[2]),
                                          sys[2]))

\* canonical rendering: architecture "-" guessed_vendor "-" system_rendering
render(t) ==
  Architecture_canonical_name(t.arch) \o "-"
    \o canonical_name("Vendor", guess_vendor(t)) \o "-" \o System_fmt(t.sys)

-----------------------------------------------------------------------------
(* Inputs *)

\* the most segments of a target text and of a system text
MaxSegments == 5

MaxSysSegments == 3

\* words of the texts: a vendor, an unrecognised word, operating
\* systems (lilium only in target-tuple-pieces; linuxelf is an operating system
\* by prefix and an object format by suffix), an environment, an environment
\* that ends in an object format, an object format
Words == {"pc", "acme", "linux", "lilium", "linuxelf", "gnu", "gnuelf", "elf"}

\* architecture segments; mos is in neither architecture table
ArchWords == {"x86_64", "i386", "wc65c816", "mos"}

\* the segments after the architecture of a target text
TargetWords == {"pc", "acme", "linux", "lilium", "gnu", "elf"}

RECURSIVE WordTexts(_, _)
WordTexts(W, n) ==
  IF n = 1 THEN W
  ELSE {w \o "-" \o t : w \in W, t \in WordTexts(W, n - 1)}

SystemTexts == UNION {WordTexts(Words, n) : n \in 1..MaxSysSegments}

TargetTexts ==
  ArchWords \cup
  {a \o "-" \o t : a \in ArchWords,
                   t \in UNION {WordTexts(TargetWords, n) : n \in 1..(MaxSegments - 1)}}

\* the enumerations of target-tuple-pieces and, under pieces::, of pieces.rs
Enumerations ==
  {"Architecture", "Vendor", "OS", "Environment", "ObjectFormat",
   "pieces::Architecture", "pieces::Vendor", "pieces::OS",
   "pieces::Environment", "pieces::ObjectFormat"}

\* the largest payload of X86_16, X86_32 and X86_64 that is enumerated
MaxMicroarch == 7

\* the members of an enumeration
Members(enum) ==
  IF enum = "Architecture"
  THEN members_of(ArchitectureNames) \cup
       {ArchN(tag, n) : tag \in {"X86_16", "X86_32", "X86_64"}, n \in 0..MaxMicroarch}
  ELSE members_of(Names(enum))

\* architecture segments of the texts that are rendered
RenderArchWords == {"x86_64", "i686", "65c02", "wc65c816", "aarch64"}

\* the segments after the architecture of a text that is rendered
RenderWords == {"pc", "unknown", "linux", "gnu", "gnuelf", "elf"}

\* the most segments of a text that is rendered
MaxRenderSegments == 4

RenderTexts ==
  {a \o "-" \o t : a \in RenderArchWords,
                   t \in UNION {WordTexts(RenderWords, n) : n \in 1..(MaxRenderSegments - 1)}}

\* texts of targets of macOS, AIX and Windows, with and without object format
ObjectTexts ==
  {"x86_64-apple-macos", "i386-apple-macos", "x86_64-apple-macos-elf",
   "i686-apple-macos-gnu", "powerpc-ibm-aix", "powerpc64-ibm-aix",
   "powerpc64le-ibm-aix", "powerpc-ibm-aix-elf", "powerpc-ibm-linux",
   "aarch64-pc-win32", "amd64-pc-linux-gnuelf", "x86_64-pc-win32-macho"}

\* the components given to Target::from_components
ComponentArchitectures ==
  {"X86", "X86_64", "PowerPC32", "PowerPC64", "PowerPC64le", "Aarch64", "Wc65c816"}

ComponentVendors == {"PC", "Unknown"}

ComponentOSs == {"Linux", "MacOSX", "AIX", "Win32"}

ComponentEnvironments == {"GNU"}

ComponentObjectFormats == {"Elf", "MachO", "XCoff"}

\* the most tokens of an arbitrary token sequence, and of the result of an arm
MaxTokens == 3

MaxResultTokens == 2

Tokens == {"x86_64", "*", "-", "=", ">", ",", "{}", "e"}

RECURSIVE TokenSeqs(_, _)
TokenSeqs(T, n) ==
  IF n = 0 THEN {<<>>}
  ELSE TokenSeqs(T, n - 1) \cup
       {Append(s, tt) : s \in {u \in TokenSeqs(T, n - 1) : Len(u) = n - 1}, tt \in T}

\* the left sides of arms, as tokens: 1 to 6 fragments, ending in a literal
\* or in a wildcard, and one that starts with a group
PatternTokens ==
  { <<"*">>, <<"x86_64">>, <<"x86_64", "-", "*">>, <<"x86_64", "-", "pc">>,
    <<"x86_64", "-", "pc", "-", "linux", "-", "gnu">>,
    <<"x86_64", "-", "pc", "-", "linux", "-", "gnu", "-", "*">>,
    <<"x86_64", "-", "pc", "-", "linux", "-", "gnu", "-", "elf">>,
    <<"x86_64", "-", "pc", "-", "linux", "-", "gnu", "-", "elf", "-", "*">>,
    <<"{}", "-", "*">> }

\* the tokens of the results of arms
ResultTokens == TokenSeqs({"e", "{}", "+"}, MaxResultTokens) \ {<<>>}

\* an arm with or without the `,` after it
ArmTokens ==
  {p \o <<"=", ">">> \o r \o c :
     p \in PatternTokens, r \in ResultTokens, c \in {<<>>, <<",">>}}

\* arm lists as tokens: one arm, or one arm and a last arm; and every short
\* token sequence
TokenLists ==
  ArmTokens \cup {a \o <<"*", "=", ">", "e">> : a \in ArmTokens}
    \cup TokenSeqs(Tokens, MaxTokens)

\* the enumerations that are classified by prefix or by suffix
Classifiers ==
  {"Environment", "ObjectFormat", "pieces::Environment", "pieces::ObjectFormat"}

\* the rules of a classifier
Rules(enum) ==
  CASE enum = "Environment" -> EnvironmentRules
    [] enum = "ObjectFormat" -> ObjectFormatRules
    [] enum = "pieces::Environment" -> pieces_EnvironmentRules
    [] enum = "pieces::ObjectFormat" -> pieces_ObjectFormatRules

\* the names that the classifiers recognise
RecognisedNames ==
  UNION {{Rules(enum)[i][2] : i \in 1..Len(Rules(enum))} : enum \in Classifiers}

\* texts to classify: a recognised name, alone, after some text, before some
\* text, or both
ClassifyTexts ==
  {p \o n \o q : p \in {"", "x", "gnu"}, n \in RecognisedNames,
                 q \in {"", "hf", "-elf"}}

\* the most arms of a match_targets list
MaxArms == 3

\* patterns of match_targets arms: the arms of the tests of src/lib.rs and
\* one of each wildcard kind
MatchPatterns ==
  { <<"x86_64", "pc", "linux", "gnu">>,
    <<"x86_64", "*", "linux", "*">>,
    <<"i686", "*", "linux", "gnu">>,
    <<"x86_64", "pc", "*">>,
    <<"x86_64", "pc", "linux", "*">>,
    <<"*", "*", "elf">>,
    <<"*">> }

RECURSIVE ArmLists(_)
ArmLists(n) ==
  IF n = 0 THEN {<<>>}
  ELSE ArmLists(n - 1) \cup
       {Append(l, p) : l \in {a \in ArmLists(n - 1) : Len(a) = n - 1},
                       p \in MatchPatterns}

\* texts of the Targets handed to match_targets
MatchTexts ==
  { "x86_64-pc-linux-gnu", "x86_64-unknown-linux-musl", "x86_64-pc-elf",
    "i686-pc-linux-gnu", "i686-pc-linux" }

OSMembers == {"Unknown"} \cup {OSRules[i][3] : i \in 1..Len(OSRules)}

EnvironmentMembers ==
  {"Unknown"} \cup {EnvironmentRules[i][3] : i \in 1..Len(EnvironmentRules)}

ObjectFormatMembers ==
  {"Unknown"} \cup {ObjectFormatRules[i][3] : i \in 1..Len(ObjectFormatRules)}

Option(S) == {None} \cup {Some(v) : v \in S}

\* the most arms of an arm list given to the pattern compiler
MaxMacroArms == 2

MacroPatterns ==
  { <<"*">>, <<"x86_64", "*">>, <<"*", "*">>, <<"mos", "*">>,
    <<"x86_64", "pc", "*">>, <<"i386", "*", "*">>, <<"x86_64", "acme", "*">>,
    <<"wc65c816", "*", "elf">>, <<"x86_64", "pc", "linux">>,
    <<"x86_64", "pc", "linux", "gnu">>, <<"x86_64", "*", "linux", "*">>,
    <<"x86_64", "*", "*", "musl">>, <<"x86_64", "pc", "acme", "gnu">>,
    <<"x86_64", "pc", "linux", "linux">>, <<"x86_64", "pc", "acme">>,
    <<"x86_64", "pc">>, <<"r#x86_64", "pc", "linux", "gnu", "elf">>,
    <<"x86_64", "pc", "linux", "gnu", "*">>,
    <<"x86_64", "pc", "linux", "gnu", "elf", "*">>,
    <<"x86_64", "linux", "gnu">> }

RECURSIVE MacroArmLists(_)
MacroArmLists(n) ==
  IF n = 1 THEN {<<p>> : p \in MacroPatterns}
  ELSE MacroArmLists(n - 1) \cup
       {<<p>> \o l : p \in MacroPatterns, l \in {m \in MacroArmLists(n - 1) : Len(m) = n - 1}}

MacroArchitectures == {ArchN("X86_64", 1), ArchN("X86_32", 3), Arch("Wc65c816")}

MacroSystems ==
  {System(o, e, f) : o \in Option({"Linux"}), e \in Option({"GNU", "Musl"}),
                     f \in Option({"Elf"})} \ {System(None, None, None)}

CanonicalTargets ==
  {CanonicalTarget(a, v, s) : a \in MacroArchitectures,
                              v \in Option({"PC", "Unknown"}), s \in MacroSystems}

-----------------------------------------------------------------------------
(* The state: the operation that was called, its argument and what it gave *)

\* idx and evaluated belong to match_targets: the arm the loop body has
\* reached, and the arms whose result expression was evaluated
VARIABLES op, arg, ret, idx, evaluated

vars == <<op, arg, ret, idx, evaluated>>

Init ==
  /\ op = "idle"
  /\ arg = <<>>
  /\ ret = <<>>
  /\ idx = 0
  /\ evaluated = {}

SystemFromStr ==
  /\ op = "idle"
  /\ \E s \in SystemTexts :
       /\ op' = "System::from_str"
       /\ arg' = s
       /\ ret' = System_from_str(s)
       /\ UNCHANGED <<idx, evaluated>>

SystemFromPieces ==
  /\ op = "idle"
  /\ \E os \in Option(OSMembers), env \in Option(EnvironmentMembers),
        objfmt \in Option(ObjectFormatMembers) :
       /\ op' = "System::from_pieces"
       /\ arg' = <<os, env, objfmt>>
       /\ ret' = System_from_pieces(os, env, objfmt)
       /\ UNCHANGED <<idx, evaluated>>

SystemFromOs ==
  /\ op = "idle"
  /\ \E os \in OSMembers :
       /\ op' = "System::from_os"
       /\ arg' = <<os>>
       /\ ret' = Ret(System_from_os(os))
       /\ UNCHANGED <<idx, evaluated>>

SystemFromOsEnv ==
  /\ op = "idle"
  /\ \E os \in OSMembers, env \in EnvironmentMembers :
       /\ op' = "System::from_os_env"
       /\ arg' = <<os, env>>
       /\ ret' = Ret(System_from_os_env(os, env))
       /\ UNCHANGED <<idx, evaluated>>

SystemFromEnv ==
  /\ op = "idle"
  /\ \E env \in EnvironmentMembers :
       /\ op' = "System::from_env"
       /\ arg' = <<env>>
       /\ ret' = Ret(System_from_env(env))
       /\ UNCHANGED <<idx, evaluated>>

SystemFromObjfmt ==
  /\ op = "idle"
  /\ \E objfmt \in ObjectFormatMembers :
       /\ op' = "System::from_objfmt"
       /\ arg' = <<objfmt>>
       /\ ret' = Ret(System_from_objfmt(objfmt))
       /\ UNCHANGED <<idx, evaluated>>

TargetFromStr ==
  /\ op = "idle"
  /\ \E s \in TargetTexts \cup ObjectTexts :
       /\ op' = "Target::from_str"
       /\ arg' = s
       /\ ret' = Target_from_str(s)
       /\ UNCHANGED <<idx, evaluated>>

TargetParse ==
  /\ op = "idle"
  /\ \E s \in TargetTexts \cup ObjectTexts :
       /\ op' = "Target::parse"
       /\ arg' = s
       /\ ret' = Target_parse(s)
       /\ UNCHANGED <<idx, evaluated>>

\* match_targets!: `let __val = &$targ;` and entry into the loop
MatchStart ==
  /\ op = "idle"
  /\ \E s \in MatchTexts, arms \in ArmLists(MaxArms) :
       /\ op' = "match_targets"
       /\ arg' = <<Target_parse(s)[2], arms>>
       /\ ret' = <<"Running">>
       /\ idx' = 1
       /\ evaluated' = {}

running == op = "match_targets" /\ ret = <<"Running">>

\* MatchArmHit without its `break`: the result expression is evaluated and
\* the loop body goes on to the next `if`
MatchArmHit_NoBreak ==
  /\ running
  /\ idx <= Len(arg[2])
  /\ match_target_pattern(arg[2][idx], arg[1])
  /\ evaluated' = evaluated \cup {idx}
  /\ idx' = idx + 1
  /\ UNCHANGED <<op, arg, ret>>

\* `if (pattern)(&__val) { break $exp }` with the pattern true: the arm's
\* result expression is evaluated (to the arm's number) and leaves the loop
MatchArmHit ==
  /\ running
  /\ idx <= Len(arg[2])
  /\ match_target_pattern(arg[2][idx], arg[1])
  /\ evaluated' = evaluated \cup {idx}
  /\ ret' = Ret(idx)
  /\ UNCHANGED <<op, arg, idx>>

\* the same `if` with the pattern false: on to the next arm
MatchArmMiss ==
  /\ running
  /\ idx <= Len(arg[2])
  /\ ~match_target_pattern(arg[2][idx], arg[1])
  /\ idx' = idx + 1
  /\ UNCHANGED <<op, arg, ret, evaluated>>

\* MatchUnreachable with a default value in place of the panic
MatchUnreachable_Default ==
  /\ running
  /\ idx > Len(arg[2])
  /\ ret' = Ret(0)
  /\ UNCHANGED <<op, arg, idx, evaluated>>

\* past the last arm: unreachable!(..)
MatchUnreachable ==
  /\ running
  /\ idx > Len(arg[2])
  /\ ret' = Panic("Incomplete Exhaustive Target Pattern (add a wildcard match as * => )")
  /\ UNCHANGED <<op, arg, idx, evaluated>>

\* the expansion of match_targets! by the pattern compiler
MacroExpand ==
  /\ op = "idle"
  /\ \E arms \in MacroArmLists(MaxMacroArms) :
       /\ op' = "__match_targets"
       /\ arg' = arms
       /\ ret' = impl_match_targets(arms)
       /\ UNCHANGED <<idx, evaluated>>

\* the emitted match, run on a target; it exists only if the expansion
\* succeeded and rustc found its arms exhaustive
MacroMatch ==
  /\ op = "__match_targets"
  /\ is_ok(ret)
  /\ exhaustive(ret[2])
  /\ \E t \in CanonicalTargets :
       /\ op' = "match"
       /\ arg' = <<t, arg>>
       /\ ret' = Ret(first_arm(ret[2], fields(t), 1))
       /\ UNCHANGED <<idx, evaluated>>

NextMacro ==
  \/ MacroExpand
  \/ MacroMatch

NextMatch ==
  \/ MatchStart
  \/ MatchArmHit
  \/ MatchArmMiss
  \/ MatchUnreachable

CanonicalName ==
  /\ op = "idle"
  /\ \E enum \in Enumerations :
       \E v \in Members(enum) :
         /\ op' = "canonical_name"
         /\ arg' = <<enum, v>>
         /\ ret' = canonical_name(enum, v)
         /\ UNCHANGED <<idx, evaluated>>

\* parse of the name that canonical_name returned
ParseCanonicalName ==
  /\ op = "canonical_name"
  /\ op' = "parse"
  /\ arg' = <<arg[1], arg[2], ret>>
  /\ ret' = parse(arg[1], ret)
  /\ UNCHANGED <<idx, evaluated>>

\* the constructors of System that return it or panic
SystemConstructors ==
  {"System::from_pieces", "System::from_os", "System::from_os_env",
   "System::from_env", "System::from_objfmt"}

\* to_string of a System that a constructor or from_str returned
SystemFmt ==
  /\ \/ op \in SystemConstructors /\ returned(ret)
     \/ op = "System::from_str" /\ is_ok(ret)
  /\ op' = "System::fmt"
  /\ arg' = ret[2]
  /\ ret' = System_fmt(ret[2])
  /\ UNCHANGED <<idx, evaluated>>

\* from_str of the text of a System
SystemReparse ==
  /\ op = "System::fmt"
  /\ op' = "System::from_str(fmt)"
  /\ arg' = <<arg, ret>>
  /\ ret' = System_from_str(ret)
  /\ UNCHANGED <<idx, evaluated>>

\* to_string of a Target that from_str returned
TargetFmt ==
  /\ op = "Target::from_str" /\ is_ok(ret)
  /\ op' = "Target::fmt"
  /\ arg' = ret[2]
  /\ ret' = Target_fmt(ret[2])
  /\ UNCHANGED <<idx, evaluated>>

\* from_str of the text of a Target
TargetReparse ==
  /\ op = "Target::fmt"
  /\ op' = "Target::from_str(fmt)"
  /\ arg' = <<arg, ret>>
  /\ ret' = Target_from_str(ret)
  /\ UNCHANGED <<idx, evaluated>>

Disambiguate ==
  /\ op = "idle"
  /\ \E text \in RenderTexts :
       /\ op' = "disambiguate"
       /\ arg' = text
       /\ ret' = disambiguate(text)
       /\ UNCHANGED <<idx, evaluated>>

Render ==
  /\ op = "disambiguate" /\ is_ok(ret)
  /\ op' = "render"
  /\ arg' = ret[2]
  /\ ret' = render(ret[2])
  /\ UNCHANGED <<idx, evaluated>>

\* disambiguate of the rendered text
Redisambiguate ==
  /\ op = "render"
  /\ op' = "disambiguate(render)"
  /\ arg' = <<arg, ret>>
  /\ ret' = disambiguate(ret)
  /\ UNCHANGED <<idx, evaluated>>

TargetFromComponents ==
  /\ op = "idle"
  /\ \E arch \in ComponentArchitectures, vendor \in ComponentVendors,
        os \in Option(ComponentOSs), env \in Option(ComponentEnvironments),
        objfmt \in Option(ComponentObjectFormats) :
       /\ op' = "Target::from_components"
       /\ arg' = <<arch, vendor, os, env, objfmt>>
       /\ ret' = Ret(Target_from_components(arch, vendor, os, env, objfmt))
       /\ UNCHANGED <<idx, evaluated>>

\* a constructor of Target has returned a Target, ret[2]
constructed ==
  \/ op = "Target::from_str" /\ is_ok(ret)
  \/ op \in {"Target::parse", "Target::from_components"} /\ returned(ret)

\* get_object_format of a Target that a constructor returned
GetObjectFormat ==
  /\ constructed
  /\ op' = "Target::get_object_format"
  /\ arg' = <<op, arg, ret[2]>>
  /\ ret' = get_object_format(ret[2])
  /\ UNCHANGED <<idx, evaluated>>

\* get_name of a Target that a constructor returned
GetName ==
  /\ constructed
  /\ op' = "Target::get_name"
  /\ arg' = <<op, arg, ret[2]>>
  /\ ret' = get_name(ret[2])
  /\ UNCHANGED <<idx, evaluated>>

\* parse_match_arm on the tokens of an arm list
ParseMatchArm ==
  /\ op = "idle"
  /\ \E tokens \in TokenLists :
       /\ op' = "parse_match_arm"
       /\ arg' = tokens
       /\ ret' = parse_match_arm_iter(tokens)
       /\ UNCHANGED <<idx, evaluated>>

\* while let Some(v) = parse_match_arm(&mut iter, ..)? : the next call, on
\* the iterator the last one left
ParseNextArm ==
  /\ op = "parse_match_arm" /\ is_ok(ret) /\ is_some(ret[2])
  /\ op' = "parse_match_arm"
  /\ arg' = unwrap(ret[2]).iter
  /\ ret' = parse_match_arm_iter(unwrap(ret[2]).iter)
  /\ UNCHANGED <<idx, evaluated>>

NextArms ==
  \/ ParseMatchArm
  \/ ParseNextArm

\* from_str of Environment or ObjectFormat on a text
Classify ==
  /\ op = "idle"
  /\ \E enum \in Classifiers :
       \E s \in ClassifyTexts :
         /\ op' = "classify"
         /\ arg' = <<enum, s>>
         /\ ret' = from_str(enum, s)
         /\ UNCHANGED <<idx, evaluated>>

NextClassify == Classify

NextSystem ==
  \/ SystemFromStr
  \/ SystemFromPieces
  \/ SystemFromOs
  \/ SystemFromOsEnv
  \/ SystemFromEnv
  \/ SystemFromObjfmt
  \/ SystemFmt
  \/ SystemReparse

NextTarget ==
  \/ TargetFromStr
  \/ TargetParse
  \/ TargetFromComponents
  \/ GetObjectFormat
  \/ GetName

NextNames ==
  \/ CanonicalName
  \/ ParseCanonicalName

NextRender ==
  \/ Disambiguate
  \/ Render
  \/ Redisambiguate
  \/ TargetFromStr
  \/ TargetFmt
  \/ TargetReparse

Next ==
  \/ NextSystem
  \/ NextTarget
  \/ NextMatch
  \/ NextMacro
  \/ NextNames
  \/ NextRender
  \/ NextArms
  \/ NextClassify

Spec == Init /\ [][Next]_vars

SpecSystem == Init /\ [][NextSystem]_vars

SpecTarget == Init /\ [][NextTarget]_vars

SpecMatch == Init /\ [][NextMatch]_vars

SpecMacro == Init /\ [][NextMacro]_vars

SpecNames == Init /\ [][NextNames]_vars

SpecRender == Init /\ [][NextRender]_vars

SpecArms == Init /\ [][NextArms]_vars

SpecClassify == Init /\ [][NextClassify]_vars

-----------------------------------------------------------------------------
(* Claims about match_targets (src/lib.rs) *)

arm_matches(i) == match_target_pattern(arg[2][i], arg[1])

\* the arms of the running dispatch that are the first to match its Target
first_matching ==
  LET matching == {i \in 1..Len(arg[2]) : arm_matches(i)}
  IN  {i \in matching : \A j \in matching : i <= j}

\* C1: match_targets returns the result of the first arm, in declaration
\* order, whose pattern is true of the Target, and evaluates the result
\* expression of no other arm: at every point of the dispatch the evaluated
\* result expressions are at most that first matching arm's, and a returned
\* value is that arm's result, the only one evaluated.
C1_FirstMatchWins ==
  op = "match_targets" =>
    LET first == first_matching
    IN  /\ evaluated \subseteq first
        /\ returned(ret) => ret[2] \in first /\ evaluated = {ret[2]}

\* C1 happens: arm A was returned while a later arm B matches as well, and A
\* is not the catch-all
C1_Witness ==
  /\ op = "match_targets"
  /\ returned(ret)
  /\ arg[2][ret[2]] # <<"*">>
  /\ \E j \in (ret[2] + 1)..Len(arg[2]) : arg[2][j] # <<"*">> /\ arm_matches(j)

Incomplete == Panic("Incomplete Exhaustive Target Pattern (add a wildcard match as * => )")

\* C2: when no arm's pattern is true of the Target, match_targets evaluates no
\* result expression and returns no value: the dispatch goes on until it
\* ends in the panic "Incomplete Exhaustive Target Pattern" (while it runs,
\* idx is an arm still to test or one past the last, where the panic is the
\* only step).
C2_NoMatchPanics ==
  (op = "match_targets" /\ first_matching = {}) =>
    /\ evaluated = {}
    /\ ~returned(ret)
    /\ running \/ ret = Incomplete
    /\ running => idx \in 1..(Len(arg[2]) + 1)

\* C2 happens: a list of at least two arms, none matching, ended in the panic
C2_Witness ==
  /\ op = "match_targets"
  /\ Len(arg[2]) >= 2
  /\ first_matching = {}
  /\ ret = Incomplete

-----------------------------------------------------------------------------
(* Claims about the Target parsers (src/pieces.rs) *)

segs == split(arg)

\* the text after the first '-', and after the second
after_arch == unwrap(split_once(arg))[2]

after_vendor == unwrap(split_once(after_arch))[2]

arch_recognised == is_ok(pieces_Architecture_from_str(segs[1]))

\* a Target's vendor as an Option (the struct of src/pieces.rs always holds
\* one) and its os, env and objfmt as a System
vendor_of(t) == Some(t.vendor)

system_of(t) == System(t.os, t.env, t.objfmt)

\* C3: for a 3-segment text arch-a-b with a recognised architecture, if a-b
\* parses as a System the Target has no vendor and that System; otherwise
\* its vendor is Vendor::from_str(a) and its System the one-segment System
\* of b.  (Stated of the code, which it does not hold of.)
C3_ThreeSegments ==
  (op = "Target::from_str" /\ Len(segs) = 3 /\ arch_recognised) =>
    LET whole == System_from_str(after_arch)
        one   == System_from_str(segs[3])
    IN  IF is_ok(whole) THEN
          /\ is_ok(ret)
          /\ vendor_of(ret[2]) = None
          /\ system_of(ret[2]) = whole[2]
        ELSE IF is_ok(one) THEN
          /\ is_ok(ret)
          /\ vendor_of(ret[2]) = Some(Vendor_from_str(segs[2])[2])
          /\ system_of(ret[2]) = one[2]
        ELSE is_err(ret)

\* C4: for a text arch-a-b of at least 4 segments with a recognised
\* architecture, parsing fails exactly when System::from_str(b) fails, and
\* otherwise gives the vendor Vendor::from_str(a) and the System of b.
\* (Stated of the code, which it does not hold of.)
C4_FourSegments ==
  (op = "Target::from_str" /\ Len(segs) >= 4 /\ arch_recognised) =>
    LET sysb == System_from_str(after_vendor)
    IN  IF is_ok(sysb) THEN
          /\ is_ok(ret)
          /\ vendor_of(ret[2]) = Some(Vendor_from_str(segs[2])[2])
          /\ system_of(ret[2]) = sysb[2]
        ELSE is_err(ret)

\* C5: a two-segment text arch-s parses strictly exactly when arch is an
\* architecture and s an operating system, an environment or an object
\* format; the Target then has no vendor and the one-segment System of s.
\* (Stated of the code, which it does not hold of.)
C5_TwoSegments ==
  (op = "Target::from_str" /\ Len(segs) = 2) =>
    LET one == System_from_str(segs[2])
    IN  /\ is_ok(ret) <=> (arch_recognised /\ is_ok(one))
        /\ is_ok(ret) => /\ vendor_of(ret[2]) = None
                         /\ system_of(ret[2]) = one[2]

\* the texts of arg with another architecture segment that from_str accepts
accepted_siblings ==
  {a \in ArchWords : is_ok(Target_from_str(a \o "-" \o after_arch))}

\* C6: strict parsing gives the UnknownError, and no Target, for every text
\* without '-' and for every text whose architecture segment is unrecognised;
\* lossy parsing of a text that differs from a strictly accepted one only by
\* an unrecognised architecture segment returns a Target whose architecture
\* is Unknown.
C6_UnknownArchitecture ==
  /\ (op = "Target::from_str" /\ (Len(segs) = 1 \/ ~arch_recognised)) => ret = Err
  /\ (op = "Target::parse" /\ Len(segs) > 1 /\ ~arch_recognised
        /\ accepted_siblings # {}) =>
       returned(ret) /\ ret[2].arch = "Unknown"

\* C6 happens: lossy parsing of a text with the unrecognised architecture mos
\* whose sibling x86_64-... is accepted strictly
C6_Witness ==
  /\ op = "Target::parse"
  /\ Len(segs) > 1
  /\ ~arch_recognised
  /\ "x86_64" \in accepted_siblings
  /\ returned(ret)
  /\ ret[2].arch = "Unknown"

-----------------------------------------------------------------------------
(* Claims about System (target-tuple-pieces) *)

\* the parts of arg around its first '-'
os_part == SubSeq(arg, 1, find_dash(arg, 1) - 1)

rest == SubSeq(arg, find_dash(arg, 1) + 1, Len(arg))

\* field f holds exactly the member of classification r, if any
present_exactly(f, r) == IF is_ok(r) THEN f = Some(r[2]) ELSE f = None

\* C7: for a text with '-', System::from_str succeeds exactly when the part
\* before the first '-' is an operating system and the part after it is an
\* environment or an object format; then os is that operating system, env is
\* present exactly when the rest is an environment and objfmt exactly when
\* the rest is an object format.
C7_SystemWithDash ==
  (op = "System::from_str" /\ find_dash(arg, 1) > 0) =>
    LET os     == OS_from_str(os_part)
        env    == Environment_from_str(rest)
        objfmt == ObjectFormat_from_str(rest)
    IN  /\ is_ok(ret) <=> (is_ok(os) /\ (is_ok(env) \/ is_ok(objfmt)))
        /\ is_ok(ret) => /\ ret[2].os = Some(os[2])
                         /\ present_exactly(ret[2].env, env)
                         /\ present_exactly(ret[2].objfmt, objfmt)

\* C7 happens: linux-gnuelf gives both an environment and an object format
C7_Witness ==
  /\ op = "System::from_str"
  /\ arg = "linux-gnuelf"
  /\ is_ok(ret)
  /\ ret[2] = System(Some("Linux"), Some("GNU"), Some("Elf"))

\* C8: for a text without '-', an operating system gives an OS-only System;
\* otherwise env and objfmt are each present exactly when the text is an
\* environment, an object format, and the parse fails only if it is neither.
C8_SystemWithoutDash ==
  (op = "System::from_str" /\ find_dash(arg, 1) = 0) =>
    LET os     == OS_from_str(arg)
        env    == Environment_from_str(arg)
        objfmt == ObjectFormat_from_str(arg)
    IN  IF is_ok(os) THEN ret = Ok(System(Some(os[2]), None, None))
        ELSE /\ is_err(ret) <=> (is_err(env) /\ is_err(objfmt))
             /\ is_ok(ret) => /\ ret[2].os = None
                              /\ present_exactly(ret[2].env, env)
                              /\ present_exactly(ret[2].objfmt, objfmt)

\* C8 happens: linuxelf is an operating system and also an object format, and
\* the System is OS-only
C8_Witness ==
  /\ op = "System::from_str"
  /\ arg = "linuxelf"
  /\ is_ok(ObjectFormat_from_str(arg))
  /\ ret = Ok(System(Some("Linux"), None, None))

has_field(sys) == is_some(sys.os) \/ is_some(sys.env) \/ is_some(sys.objfmt)

\* C9: System::from_pieces(None, None, None) panics, and every System that
\* from_pieces, from_os, from_os_env, from_env, from_objfmt or from_str
\* returns has at least one field present.
C9_SystemInvariant ==
  /\ (op = "System::from_pieces" /\ arg = <<None, None, None>>) => panicked(ret)
  /\ (op \in SystemConstructors /\ returned(ret)) => has_field(ret[2])
  /\ (op = "System::from_str" /\ is_ok(ret)) => has_field(ret[2])

\* C9 happens: from_pieces was called with three absent fields
C9_Witness ==
  /\ op = "System::from_pieces"
  /\ arg = <<None, None, None>>
  /\ panicked(ret)

-----------------------------------------------------------------------------
(* Claims about the pattern compiler (target-tuples-macro) *)

\* in a state of the emitted match: the target, the first arm's fragments,
\* and whether the first arm was the one taken
macro_target == arg[1]

first_pattern == arg[2][1]

first_taken == ret[2] = 1

\* would the first arm match the target if its system were s
first_matches_with(s) ==
  arm_pattern_matches(parse_match_arm(first_pattern)[2],
                      fields([macro_target EXCEPT !.sys = s]))

C11_LiteralSystemExact ==
  (op = "match" /\ Len(first_pattern) = 3 /\ first_pattern[3] # "*"
     /\ first_taken) =>
    macro_target.sys = System_from_str(first_pattern[3])[2]

\* C11 happens: wc65c816-*-elf (os absent, env absent, objfmt Elf) is not
\* taken for a wc65c816 target with objfmt Elf whose os is present
C11_Witness ==
  /\ op = "match"
  /\ first_pattern = <<"wc65c816", "*", "elf">>
  /\ macro_target.arch = Arch("Wc65c816")
  /\ macro_target.sys = System(Some("Linux"), None, Some("Elf"))
  /\ ~first_taken

\* all fragments of the first arm's pattern are literals
all_literal(p) == \A k \in 1..Len(p) : p[k] # "*"

\* C12: a pattern arch-vendor-os-env of literals is taken only for targets
\* with that architecture, vendor (if the target has one), operating system
\* and environment; it constrains the object format only when the environment
\* token also classifies as an object format, and otherwise targets that
\* differ only in their object format get the same outcome.  (Stated of the
\* code, which it does not hold of.)
C12_FourFragments ==
  (op = "match" /\ Len(first_pattern) = 4 /\ all_literal(first_pattern)) =>
    LET t      == macro_target
        p      == first_pattern
        envobj == System_from_str(p[4])[2]
    IN  /\ first_taken =>
             /\ t.arch = Architecture_from_str(p[1])[2]
             /\ is_some(t.vendor) => t.vendor = Some(Vendor_from_str(p[2])[2])
             /\ t.sys.os = Some(OS_from_str(p[3])[2])
             /\ t.sys.env = envobj.env
        /\ (envobj.objfmt # None /\ first_taken) => t.sys.objfmt = envobj.objfmt
        /\ envobj.objfmt = None =>
             \A f \in Option({"Elf"}) :
               first_matches_with([t.sys EXCEPT !.objfmt = f]) <=> first_taken

\* would the first arm match the target u
first_matches(u) ==
  arm_pattern_matches(parse_match_arm(first_pattern)[2], fields(u))

\* the targets that differ from the dispatched one at most in the field of
\* fragment position k (1 architecture, 2 vendor, 3 operating system)
variants(k) ==
  CASE k = 1 -> {[macro_target EXCEPT !.arch = a] : a \in MacroArchitectures}
    [] k = 2 -> {[macro_target EXCEPT !.vendor = v] : v \in Option({"PC", "Unknown"})}
    [] k = 3 -> {u \in {[macro_target EXCEPT !.sys.os = o] : o \in Option({"Linux"})} :
                   u.sys \in MacroSystems}

\* C13: when the pattern has a positional wildcard in the architecture,
\* vendor or operating-system position, targets that differ only in that
\* field, absent included, get the same outcome.  (Stated of the code, which
\* it does not hold of.)
C13_PositionalWildcard ==
  op = "match" =>
    \A k \in 1..(Len(first_pattern) - 1) :
      (k <= 3 /\ first_pattern[k] = "*") =>
        \A u \in variants(k) : first_matches(u) <=> first_taken

-----------------------------------------------------------------------------
(* Claims about the patterns of match_targets (src/lib.rs) *)

\* the members Target::parse gives a literal fragment
lossy(r) == IF is_ok(r) THEN r[2] ELSE "Unknown"

\* every literal fragment of pattern p holds of Target t in its own field
literals_hold(p, t) ==
  /\ p[1] # "*" => get_arch(t) = pieces_Architecture_parse(p[1])
  /\ p[2] # "*" => get_vendor(t) = pieces_Vendor_from_str(p[2])[2]
  /\ (Len(p) = 4 /\ p[3] # "*") =>
       get_operating_system(t) = lossy(pieces_OS_from_str(p[3]))
  /\ (Len(p) = 4 /\ p[4] # "*") =>
       get_environment(t) = lossy(pieces_Environment_from_str(p[4]))

\* C14: a pattern with wildcards matches only Targets that agree with each of
\* its literal fragments in that fragment's field; in particular
\* arch-vendor-os-* does not match a Target of another architecture.  (Stated
\* of the code, which it does not hold of.)
C14_LiteralsConstrain ==
  op = "match_targets" =>
    \A i \in 1..Len(arg[2]) :
      LET p == arg[2][i]
      IN  (Len(p) >= 2 /\ (\E k \in 1..Len(p) : p[k] = "*") /\ arm_matches(i)) =>
            literals_hold(p, arg[1])

-----------------------------------------------------------------------------
(* Claims about the errors of the pattern compiler (target-tuples-macro) *)

\* a vendor token that names a member: one of the names Vendor::from_str
\* knows, or the canonical name of Vendor::Unknown
known_vendor(tok) == is_ok(first_match(VendorRules, tok, 1)) \/ tok = "unknown"

\* pattern p holds a literal, in the architecture, vendor, operating-system
\* or environment position, that names no member
unrecognised_literal(p) ==
  /\ Len(p) \in 2..4
  /\ \/ p[1] # "*" /\ is_err(Architecture_from_str(p[1]))
     \/ Len(p) >= 3 /\ p[2] # "*" /\ ~known_vendor(p[2])
     \/ Len(p) = 3 /\ p[3] # "*" /\ is_err(System_from_str(p[3]))
     \/ Len(p) = 4 /\ p[3] # "*" /\ is_err(OS_from_str(p[3]))
     \/ Len(p) = 4 /\ p[4] # "*" /\ is_err(Environment_from_str(p[4]))
                                 /\ is_err(ObjectFormat_from_str(p[4]))

\* C15: expanding an arm list gives a compile error, and no match, whenever
\* one of its arms has a literal that names no member.  (Stated of the code,
\* which it does not hold of.)
C15_UnknownLiteralIsError ==
  (op = "__match_targets" /\ \E i \in 1..Len(arg) : unrecognised_literal(arg[i])) =>
    ~is_ok(ret)

\* C16: a target whose vendor is absent is not taken by a pattern with a
\* literal vendor fragment.  (Stated of the code, which it does not hold of.)
C16_NoVendorInference ==
  (op = "match" /\ Len(first_pattern) \in 3..4 /\ first_pattern[2] # "*"
     /\ macro_target.vendor = None) =>
    ~first_taken

-----------------------------------------------------------------------------
(* Claims about rendering and canonical names *)

\* the Target that was rendered, and the text it was rendered to
rendered == arg[1]

\* the fields of the Target of the specification survive the round trip
same_target(t, u) ==
  /\ u.arch = t.arch
  /\ u.vendor = Some(guess_vendor(t))
  /\ u.sys = t.sys

\* the fields of the Target of pieces.rs survive the round trip
same_fields(t, u) ==
  /\ u.arch = t.arch
  /\ u.vendor = t.vendor
  /\ u.os = t.os
  /\ u.env = t.env
  /\ u.objfmt = t.objfmt

\* C17: a Target that disambiguation returned is rendered, and the rendered
\* text is disambiguated again: this succeeds, and gives a Target of the same
\* architecture, whose vendor is the guessed vendor of the first, and of the
\* same os, env and objfmt.  For the Target of pieces.rs, whose vendor is
\* always stored, from_str of the text that Display writes gives the same
\* five fields.
C17_RenderIdempotent ==
  /\ op = "disambiguate(render)" =>
       (is_ok(ret) /\ same_target(rendered, ret[2]))
  /\ op = "Target::from_str(fmt)" =>
       (is_ok(ret) /\ same_fields(rendered, ret[2]))


\* the enumeration and the member that canonical_name was applied to
named_enum == arg[1]

named_member == arg[2]

\* C18: for every member v of each enumeration, the parse of that enumeration
\* applied to the canonical name of v gives v again.
C18_NameRoundTrip ==
  op = "parse" => ret = named_member

\* C19: canonical_name gives every member of an enumeration a name, and no
\* other member of the same enumeration has that name.
C19_NameInjective ==
  op = "canonical_name" =>
    /\ Len(ret) > 0
    /\ \A w \in Members(named_enum) :
         canonical_name(named_enum, w) = ret => w = named_member


\* the number of '-' of a text
dashes(s) == Len(split(s)) - 1

\* the number of fields of a System that are present
present(sys) ==
  (IF is_some(sys.os) THEN 1 ELSE 0) + (IF is_some(sys.env) THEN 1 ELSE 0)
    + (IF is_some(sys.objfmt) THEN 1 ELSE 0)

\* the canonical name of a field, or the empty text when it is absent
field_name(enum, o) == IF is_some(o) THEN canonical_name(enum, unwrap(o)) ELSE ""

\* the names of the present fields in the order os, env, objfmt, with sep
\* between os and what follows and sep2 between env and objfmt
joined(sys, sep, sep2) ==
  field_name("OS", sys.os)
    \o (IF is_some(sys.os) /\ (is_some(sys.env) \/ is_some(sys.objfmt)) THEN sep ELSE "")
    \o field_name("Environment", sys.env)
    \o (IF is_some(sys.env) /\ is_some(sys.objfmt) THEN sep2 ELSE "")
    \o field_name("ObjectFormat", sys.objfmt)

\* C20 as stated: the text of a System is the names of its present fields in
\* the order os, env, objfmt joined by '-'; with exactly two fields present
\* it has exactly one '-', with exactly one field present it has none.
C20_JoinedByDash ==
  op = "System::fmt" =>
    /\ ret = joined(arg, "-", "-")
    /\ present(arg) = 2 => dashes(ret) = 1
    /\ present(arg) = 1 => dashes(ret) = 0

\* C20: the text of a System is the names of its present fields in the order
\* os, env, objfmt, with '-' after the os when a field follows it and nothing
\* between env and objfmt; it has exactly one '-' when the os and another
\* field are present and no '-' otherwise.
C20_SystemRendering ==
  op = "System::fmt" =>
    /\ ret = joined(arg, "-", "")
    /\ dashes(ret) =
         IF is_some(arg.os) /\ (is_some(arg.env) \/ is_some(arg.objfmt)) THEN 1 ELSE 0

\* C20 happens: a System of env and objfmt only was rendered
C20_Witness ==
  /\ op = "System::fmt"
  /\ arg = System(None, Some("GNU"), Some("Elf"))
  /\ ret = "gnuelf"


-----------------------------------------------------------------------------
(* Claims about the accessors and constructors of Target (src/pieces.rs) *)

\* the constructor that returned the Target an accessor was applied to, what
\* it was given, and the Target
constructor == arg[1]

given == arg[2]

target == arg[3]

\* the x86 variants of Architecture in pieces.rs
x86_variants == {"X86", "X86_64"}

\* C21: get_object_format gives the stored object format whenever there is
\* one, whatever the architecture and the OS; with none stored, a Target of
\* an x86 architecture gives MachO when its OS is MacOSX and Elf when its OS
\* is Linux.
C21_ObjectFormat ==
  op = "Target::get_object_format" =>
    /\ is_some(target.objfmt) => ret = unwrap(target.objfmt)
    /\ (~is_some(target.objfmt) /\ target.arch \in x86_variants
          /\ target.os = Some("MacOSX")) => ret = "MachO"
    /\ (~is_some(target.objfmt) /\ target.arch \in x86_variants
          /\ target.os = Some("Linux")) => ret = "Elf"

\* C21 happens: the object format of the parsed x86_64-apple-macos, which
\* stores none, was asked for
C21_Witness ==
  /\ op = "Target::get_object_format"
  /\ constructor = "Target::from_str"
  /\ given = "x86_64-apple-macos"
  /\ ret = "MachO"


\* C22: get_name of a Target that from_str or parse made from the text s is
\* s itself, whatever aliases s uses and whatever the Target renders to.
C22_ExactName ==
  (op = "Target::get_name" /\ constructor \in {"Target::from_str", "Target::parse"}) =>
    ret = given

\* C22 happens: the name of a Target parsed from a text with the alias amd64,
\* which is not the text the Target renders to, was asked for
C22_Witness ==
  /\ op = "Target::get_name"
  /\ constructor = "Target::from_str"
  /\ given = "amd64-pc-linux-gnuelf"
  /\ Target_fmt(target) = "x86_64-pc-linux-gnuelf"
  /\ ret = given


\* the PowerPC members of Architecture in pieces.rs
powerpc == {"PowerPC32", "PowerPC64", "PowerPC64le"}

\* the (architecture, OS) pairs of the table of get_object_format
table_entries ==
  (MachOArchitectures \X {"MacOSX"}) \cup (CoffArchitectures \X {"Win32"})
    \cup (XCoffArchitectures \X {"AIX"})

\* C25 as stated: with no object format stored and the OS AIX,
\* get_object_format gives XCoff for every PowerPC architecture, 32-bit,
\* 64-bit and 64-bit little-endian; for every (architecture, OS) that has no
\* table entry it gives Elf.
C25_XCoffDefault ==
  (op = "Target::get_object_format" /\ ~is_some(target.objfmt)) =>
    /\ (target.arch \in powerpc /\ target.os = Some("AIX")) => ret = "XCoff"
    /\ (\A e \in table_entries : target.os # Some(e[2]) \/ target.arch # e[1]) =>
         ret = "Elf"

\* the big-endian PowerPC members
powerpc_big_endian == {"PowerPC32", "PowerPC64"}

\* C25: with no object format stored and the OS AIX, get_object_format gives
\* XCoff for the 32-bit and the 64-bit big-endian PowerPC and Elf for the
\* 64-bit little-endian PowerPC, which has no table entry; for every
\* (architecture, OS) that has no table entry it gives Elf.
C25_XCoffBigEndian ==
  (op = "Target::get_object_format" /\ ~is_some(target.objfmt)) =>
    /\ (target.arch \in powerpc_big_endian /\ target.os = Some("AIX")) =>
         ret = "XCoff"
    /\ (target.arch \in powerpc \ powerpc_big_endian /\ target.os = Some("AIX")) =>
         ret = "Elf"
    /\ (\A e \in table_entries : target.os # Some(e[2]) \/ target.arch # e[1]) =>
         ret = "Elf"

\* C25 happens: the object format of the parsed powerpc64le-ibm-aix, which
\* stores none, was asked for
C25_Witness ==
  /\ op = "Target::get_object_format"
  /\ constructor = "Target::from_str"
  /\ given = "powerpc64le-ibm-aix"
  /\ target.arch = "PowerPC64le"
  /\ ~is_some(target.objfmt)
  /\ ret = "Elf"

\* C26: every Target that from_str, parse or from_components returns has at
\* least one of os, env and objfmt present.
C26_TargetInvariant ==
  constructed => has_field(ret[2])

\* the fields of the Target that from_str returned for the text given to parse
strict == Target_from_str(arg)[2]

\* C29: for every text on which from_str returns a Target, parse returns a
\* Target with the same architecture, vendor, os, env and objfmt.
C29_LossyAgreesWithStrict ==
  (op = "Target::parse" /\ is_ok(Target_from_str(arg))) =>
    (returned(ret) /\ same_fields(strict, ret[2]))

-----------------------------------------------------------------------------
(* Claims about a pattern spelled as the text of the target *)

\* the text that spells the first pattern
pattern_text == to_target(first_pattern)

\* the first pattern has 3 or 4 literal fragments, and the target is the one
\* its text disambiguates to
own_pattern ==
  /\ op = "match"
  /\ Len(first_pattern) \in 3..4
  /\ all_literal(first_pattern)
  /\ disambiguate(pattern_text) = Ok(macro_target)

-----------------------------------------------------------------------------
(* Claims about the arms of an arm list as tokens (target-tuples-macro) *)

\* parse_match_arm returned an arm
arm_parsed == op = "parse_match_arm" /\ is_ok(ret) /\ is_some(ret[2])

\* the arm it returned: left, right and the iterator after the arm
parsed_arm == unwrap(ret[2])

\* the index of the first tok of s at or after i, or 0 when there is none
RECURSIVE index_of(_, _, _)
index_of(s, tok, i) ==
  IF i > Len(s) THEN 0
  ELSE IF s[i] = tok THEN i
  ELSE index_of(s, tok, i + 1)

\* the index of the first token after the `=>` of the arm
result_start == index_of(arg, ">", 1) + 1

\* the index of the first `,` of the result, or 0
next_comma == index_of(arg, ",", result_start)

\* the index of the last token of the result: the first one that is followed
\* by a `,`, is a brace group, or is the last token
result_end ==
  CHOOSE k \in result_start..Len(arg) :
    /\ k = Len(arg) \/ arg[k + 1] = "," \/ arg[k] = "{}"
    /\ \A j \in result_start..(k - 1) : arg[j + 1] # "," /\ arg[j] # "{}"

\* C24 as stated: the result of an arm is all tokens between its `=>` and
\* the next `,` (or the end of the list), and the next arm starts right after
\* that `,`.
C24_CommaTerminates ==
  arm_parsed =>
    /\ parsed_arm.right =
         SubSeq(arg, result_start, IF next_comma = 0 THEN Len(arg) ELSE next_comma - 1)
    /\ parsed_arm.iter =
         IF next_comma = 0 THEN <<>> ELSE SubSeq(arg, next_comma + 1, Len(arg))

\* C24: the result of an arm is the tokens after its `=>` up to the first one
\* that is followed by a `,`, is a brace group, or is the last token; the
\* next arm starts after that token, and after the `,` when one follows it.
C24_ArmEnd ==
  arm_parsed =>
    /\ parsed_arm.right = SubSeq(arg, result_start, result_end)
    /\ parsed_arm.iter =
         SubSeq(arg,
                IF result_end < Len(arg) /\ arg[result_end + 1] = ","
                THEN result_end + 2 ELSE result_end + 1,
                Len(arg))

\* C24 happens: an arm whose result is a brace group with no `,` after it
\* was parsed, and the next arm starts right after the group
C24_Witness ==
  /\ arm_parsed
  /\ arg = <<"*", "=", ">", "{}", "*", "=", ">", "e">>
  /\ parsed_arm.right = <<"{}">>
  /\ parsed_arm.iter = <<"*", "=", ">", "e">>


\* the tokens of the pattern of the arm at the head of the list: those before
\* its `=>`
pattern_tokens == SubSeq(arg, 1, index_of(arg, "=", 1) - 1)

\* the list starts with a pattern: fragments (identifiers or `*`) joined by
\* `-`, then `=>`
starts_with_pattern ==
  /\ op = "parse_match_arm"
  /\ index_of(arg, "=", 1) > 1
  /\ index_of(arg, ">", 1) = index_of(arg, "=", 1) + 1
  /\ Len(pattern_tokens) % 2 = 1
  /\ \A k \in 1..Len(pattern_tokens) :
       IF k % 2 = 0 THEN pattern_tokens[k] = "-"
       ELSE pattern_tokens[k] = "*" \/ pattern_tokens[k] \notin Puncts \cup Groups

\* the number of fragments of that pattern
fragments == (Len(pattern_tokens) + 1) \div 2

ends_with_wildcard == pattern_tokens[Len(pattern_tokens)] = "*"

\* the lengths of the patterns that are compiled
compilable ==
  /\ fragments \in 1..4
  /\ ~ends_with_wildcard => fragments >= 3

\* C27: a pattern is compiled only if it has 1 to 4 fragments and, when it
\* does not end with a wildcard, at least 3 fragments; a pattern with 5 or
\* more fragments, or with 1 or 2 fragments ending in a literal, is rejected
\* and produces no match arm.
C27_CompiledLengths ==
  /\ arm_parsed => (starts_with_pattern /\ compilable)
  /\ (starts_with_pattern /\ ~compilable) => ~is_ok(ret)

\* C27 happens: a pattern of 5 fragments ending in a wildcard was rejected
C27_Witness ==
  /\ starts_with_pattern
  /\ fragments = 5
  /\ ends_with_wildcard
  /\ ~is_ok(ret)


\* C28: parse_match_arm returns compiled arms, Ok(None) at the end of input,
\* or an Error value for every token sequence; it never executes one of its
\* unreachable!() branches, also not for a pattern of 5 or more fragments.
C28_NoUnreachable ==
  op = "parse_match_arm" => (is_ok(ret) \/ ret[1] = "Error")


-----------------------------------------------------------------------------
(* Claims about the classification of Environment and ObjectFormat *)

\* the rules of the classifier whose name is a prefix (Environment) or a
\* suffix (ObjectFormat) of the classified text
recognised ==
  {i \in 1..Len(Rules(arg[1])) : rule_matches(Rules(arg[1])[i], arg[2])}

\* those of them with the longest name
longest ==
  {i \in recognised :
     \A j \in recognised : Len(Rules(arg[1])[j][2]) <= Len(Rules(arg[1])[i][2])}

\* C30: classification picks the most specific member: the classification
\* of an Environment is the member of the longest recognised name that is a
\* prefix of the text, and that of an ObjectFormat the member of the longest
\* recognised name that is a suffix of the text.
C30_MostSpecific ==
  (op = "classify" /\ recognised # {}) =>
    \E i \in longest : ret = Ok(Rules(arg[1])[i][3])

\* C30 happens: gnueabihf, of which gnu and gnueabi are prefixes too, was
\* classified as GNUEABIHF
C30_Witness ==
  /\ op = "classify"
  /\ arg = <<"Environment", "gnueabihf">>
  /\ Cardinality(recognised) = 3
  /\ ret = Ok("GNUEABIHF")

=============================================================================
